---- MODULE Spec2Model ----
(***************************************************************************)
(* A model of react-native-video-screenshot-plugin: the player registry,   *)
(* the retriever pool, the frame extraction chain and the request          *)
(* pipeline of the Android module (VideoScreenshotPluginModule.kt), and    *)
(* the request flow of the iOS plugin (ios/VideoScreenshotPlugin.swift).   *)
(***************************************************************************)
EXTENDS Integers, Sequences, FiniteSets, TLC

\* ---------------------------------------------------------------- bounds
NumIds == 2
NumHandles == 2
NumCallers == 2
MaxCalls == 2
NumWorkers == 4
MaxExtractions == 4
NumReqs == 1
MaxSettled == 1
\* the natural size of the videos the host plays
VideoWidth == 4
VideoHeight == 2
\* the resize constraint a caller may pass
SmallWidth == 2
MaxSide == 4
MaxLimit == 5
\* the directories above the file of a saveScreenshotToPath path
PathDepth == 3
\* the longest encoded image, in bytes
MaxBytes == 2
\* the playback positions of a player, in milliseconds
MaxPosition == 3
\* the extraction calls made before onCatalystInstanceDestroy
MaxInFlight == 2
\* iOS: the assets the players present and the captures made of them
NumAssets == 2
MaxCaptures == 3
\* iOS: the lifecycle calls that write through the player queue
MaxWrites == 3

Ids == 1..NumIds
Handles == 1..NumHandles
Callers == 1..NumCallers
Workers == 1..NumWorkers
Reqs == 1..NumReqs

\* a call frame of extractFrameWithMediaMetadataRetriever that is not running
IdleExtraction ==
    [pc |-> "idle", ctx |-> "none", retriever |-> 0, sizeSeen |-> 0,
     bitmap |-> "none", fail |-> "none"]

\* the absent value (Kotlin null / Swift nil) of a lookup
NoPlayer == 0

VARIABLES
    playerRegistry,   \* ConcurrentHashMap<String, ExoPlayer>: id -> handle or NoPlayer
    lastCall,         \* history: the most recent lifecycle call per id
    looked,           \* the result of the most recent getPlayerById
    listed,           \* the array most recently resolved by listAvailableVideos
    caller,           \* the lifecycle callers of the concurrent specification
    chainIn,          \* what the media framework answers to each attempt of one chain
    chainOut,         \* the attempts made and the frame returned by that chain
    pool,             \* MediaMetadataRetrieverPool.pool: the queue of idle retrievers
    activeCount,      \* MediaMetadataRetrieverPool.activeCount
    constructed,      \* number of MediaMetadataRetriever objects constructed so far
    nativeReleased,   \* the retrievers whose native release() was called
    ext,              \* the running calls of extractFrameWithMediaMetadataRetriever
    extractions,      \* number of extraction calls started so far
    req,              \* the requests launched on screenshotScope
    exoPlayer,        \* the state of each ExoPlayer as the host drives it
    mediaStore,       \* the entries of MediaStore.Images
    files,            \* the files written by saveImageDataToFile
    destroyed,        \* onCatalystInstanceDestroy has run
    players,          \* iOS: the players dictionary of the plugin
    avPlayer,         \* iOS: the state of each AVPlayer as the host drives it
    pluginAlive,      \* iOS: the plugin instance has not been deallocated
    iosReq,           \* iOS: the requests the bridge has called
    settlements,      \* history: what the promises of earlier requests were settled with
    resizeCall,       \* one call of resizeBitmapMaintainingAspectRatio: arguments and result
    lister,           \* the running call of listAvailableVideos
    waitReq,          \* iOS: the running call of captureScreenshotWhenReady
    pathSave,         \* one saveScreenshotToPath from the encoded bytes on, and its files
    facade,           \* JS: one call of a facade method and the native call it makes
    dictAccess,       \* iOS: the accesses to the players dictionary that are under way
    stampReq,         \* one capture with a timestamp, and the position of its player
    bitmaps,          \* one capture from its frame on, and the bitmaps it created
    genCache,         \* iOS: the cached image generators and the running capture
    barrierReg        \* iOS: the players dictionary written through barrier blocks

regVars == <<playerRegistry, lastCall, looked, listed>>
chainVars == <<chainIn, chainOut>>
poolVars == <<pool, activeCount, constructed, nativeReleased>>
iosVars == <<players, avPlayer, pluginAlive, iosReq>>
auxVars == <<settlements, resizeCall, lister, waitReq>>
extraVars == <<pathSave, facade, dictAccess>>
lateVars == <<stampReq, bitmaps, genCache, barrierReg>>
androidVars == <<req, exoPlayer, mediaStore, files, destroyed>>
vars == <<playerRegistry, lastCall, looked, listed, caller, chainIn, chainOut,
          pool, activeCount, constructed, nativeReleased, ext, extractions,
          req, exoPlayer, mediaStore, files, destroyed,
          players, avPlayer, pluginAlive, iosReq,
          settlements, resizeCall, lister, waitReq, pathSave, facade, dictAccess,
          stampReq, bitmaps, genCache, barrierReg>>

\* ------------------------------------------------------ request records

Kinds == {"captureScreenshot", "saveScreenshotToLibrary", "saveScreenshotToPath",
          "isScreenshotSupported", "getVideoDimensions"}

CaptureKinds == {"captureScreenshot", "saveScreenshotToLibrary", "saveScreenshotToPath"}

\* the option maps a caller passes, as parseScreenshotOptions reads them
OptionSets ==
    {[includeTimestamp |-> TRUE, maxWidth |-> 0, maxHeight |-> 0, format |-> "jpeg", quality |-> 90],
     [includeTimestamp |-> FALSE, maxWidth |-> SmallWidth, maxHeight |-> 0, format |-> "png", quality |-> 50],
     [includeTimestamp |-> TRUE, maxWidth |-> 0, maxHeight |-> 0, format |-> "jpeg", quality |-> 50]}

NoOptions == [includeTimestamp |-> FALSE, maxWidth |-> 0, maxHeight |-> 0, format |-> "none", quality |-> 0]

NoBitmap == [kind |-> "none", w |-> 0, h |-> 0, scaled |-> FALSE]

\* VideoSize.UNKNOWN
UnknownSize == [w |-> 0, h |-> 0]

NoInfo == [uri |-> FALSE, videoSize |-> UnknownSize]

\* the bytes an encoder wrote: complete is FALSE when compress failed
NoData == [complete |-> FALSE, w |-> 0, h |-> 0, format |-> "none", quality |-> 0]

NoResult == [base64 |-> NoData, width |-> 0, height |-> 0, timestamp |-> FALSE,
             uri |-> "none", size |-> FALSE]

IdleRequest ==
    [pc |-> "idle", kind |-> "none", id |-> 0, opts |-> NoOptions, player |-> NoPlayer,
     ctx |-> "none", info |-> NoInfo, bitmap |-> NoBitmap, processed |-> NoBitmap,
     imageData |-> NoData, result |-> NoResult, error |-> "none",
     code |-> "none", value |-> "none", settled |-> 0, fx |-> {},
     registered |-> "unknown", fail |-> "none"]

\* a player with no media item and unknown video size, and one that
\* presents its item
PlayerStates == {"empty", "ready"}

IdleIosRequest ==
    [pc |-> "idle", kind |-> "none", id |-> 0, player |-> NoPlayer, queue |-> "none",
     code |-> "none", value |-> "none", settled |-> 0, fx |-> {}]

InitIos ==
    /\ players = [i \in Ids |-> NoPlayer]
    /\ avPlayer = [h \in Handles |-> "empty"]
    /\ pluginAlive = TRUE
    /\ iosReq = [r \in Reqs |-> IdleIosRequest]

\* an option the caller left out of the options map
Absent == -1

\* a CGFloat that is the quotient of two integers
Frac(n, d) == [n |-> n, d |-> d]

Whole(k) == Frac(k, 1)

\* the CGSize of a UIImage
NoSize == [w |-> Whole(0), h |-> Whole(0)]

\* no resize call has been made
IdleResize ==
    [done |-> FALSE, bitmap |-> NoBitmap, maxWidth |-> 0, maxHeight |-> 0, out |-> NoBitmap,
     outSequential |-> NoSize, outConfig |-> NoSize]

\* no listAvailableVideos call is running
IdleLister ==
    [pc |-> "idle", order |-> <<>>, next |-> 0, ids |-> <<>>, resolved |-> <<>>, instants |-> {}]

\* captureScreenshotWhenReady has not been called
IdleWait ==
    [pc |-> "idle", id |-> 0, player |-> NoPlayer, attempts |-> 0, misses |-> 0,
     elapsed |-> 0, waitTime |-> Absent, maxWidth |-> Absent,
     maxHeight |-> Absent, source |-> "none", payload |-> NoSize, width |-> 0, height |-> 0,
     code |-> "none", settled |-> 0]

\* no file, no bytes
NoFile == <<>>

\* saveScreenshotToPath has not come to its file
IdleSave ==
    [pc |-> "idle", platform |-> "none", blocked |-> FALSE, parents |-> 0, dirs |-> 0,
     file |-> NoFile, onDisk |-> FALSE, data |-> NoFile, uri |-> "none", size |-> -1,
     code |-> "none"]

\* an options object without properties: {}
EmptyObject == [k \in {} |-> 0]

\* no facade method has been called
IdleFacade ==
    [pc |-> "idle", layer |-> "none", method |-> "none", videoId |-> 0, options |-> EmptyObject,
     nativeId |-> 0, nativeOptions |-> EmptyObject,
     native |-> [kind |-> "none", code |-> "none", message |-> <<>>],
     outcome |-> [kind |-> "none", code |-> "none", message |-> <<>>]]

\* no thread is in the players dictionary; nothing has been read from it
NoAccess == [inflight |-> {}, read |-> [id |-> 0, player |-> NoPlayer]]

\* no capture with a timestamp is under way
IdleStamp ==
    [pc |-> "idle", includeTimestamp |-> FALSE, position |-> 0, stamped |-> FALSE,
     timestamp |-> Frac(0, 1000), timeUs |-> 0, frame |-> "none", frameUs |-> 0,
     code |-> "none"]

\* no capture has come to its frame
IdleBitmaps ==
    [pc |-> "idle", mode |-> "none", opts |-> NoOptions, original |-> NoBitmap,
     processed |-> NoBitmap, created |-> 0, recycled |-> <<0, 0>>, error |-> "none",
     code |-> "none"]

\* no generator is cached and no capture is under way
IdleGen ==
    [pc |-> "idle", cache |-> <<>>, asset |-> 0, tolerance |-> "none", cached |-> FALSE,
     first |-> "none", retry |-> "none", image |-> FALSE, captures |-> 0]

\* an empty dictionary and an empty player queue
IdleBarrier ==
    [dict |-> [i \in Ids |-> NoPlayer], queue |-> <<>>, running |-> {}, writes |-> 0,
     returned |-> [i \in Ids |-> [op |-> "none", player |-> NoPlayer]],
     lookup |-> [pc |-> "idle", id |-> 0, expected |-> NoPlayer, behind |-> 0,
                 result |-> NoPlayer]]

InitLate ==
    /\ stampReq = IdleStamp
    /\ bitmaps = IdleBitmaps
    /\ genCache = IdleGen
    /\ barrierReg = IdleBarrier

InitAux ==
    /\ settlements = {}
    /\ resizeCall = IdleResize
    /\ lister = IdleLister
    /\ waitReq = IdleWait
    /\ pathSave = IdleSave
    /\ facade = IdleFacade
    /\ dictAccess = NoAccess
    /\ InitLate

InitAndroidIdle ==
    /\ InitIos
    /\ req = [r \in Reqs |-> IdleRequest]
    /\ exoPlayer = [h \in Handles |-> "empty"]
    /\ mediaStore = {}
    /\ files = {}
    /\ destroyed = FALSE

InitAndroid ==
    /\ InitIos
    /\ req = [r \in Reqs |-> IdleRequest]
    /\ exoPlayer = [h \in Handles |-> "empty"]
    /\ mediaStore = {}
    /\ files = {}
    /\ destroyed = FALSE

\* ------------------------------------------------------- player registry

\* a lost-update put: writes a copy that forgets the other entries
RegistryPutClobber(reg, id, player) ==
    [i \in Ids |-> IF i = id THEN player ELSE NoPlayer]

\* playerRegistry[id] = player
RegistryPut(reg, id, player) ==
    [reg EXCEPT ![id] = player]

\* a remove that empties the map when the id has no entry
RegistryRemoveOrClear(reg, id) ==
    IF reg[id] = NoPlayer THEN [i \in Ids |-> NoPlayer] ELSE [reg EXCEPT ![id] = NoPlayer]

\* a remove that leaves the entry in place
RegistryRemoveNoop(reg, id) ==
    reg

\* playerRegistry.remove(id)
RegistryRemove(reg, id) ==
    [reg EXCEPT ![id] = NoPlayer]

\* a lookup that answers with some registered player when the id is absent
getPlayerByIdOrAny(reg, videoId) ==
    IF reg[videoId] # NoPlayer \/ \A i \in Ids : reg[i] = NoPlayer
      THEN reg[videoId]
      ELSE reg[CHOOSE i \in Ids : reg[i] # NoPlayer]

\* playerRegistry[videoId]
getPlayerById(reg, videoId) ==
    reg[videoId]

\* playerRegistry.keys
RegistryKeys(reg) ==
    {i \in Ids : reg[i] # NoPlayer}

\* every order in which forEach may visit a key set
Enumerations(S) ==
    {s \in [1..Cardinality(S) -> S] : \A i, j \in 1..Cardinality(S) : i # j => s[i] # s[j]}

NoCall == [op |-> "none", player |-> NoPlayer]

\* the registry content a lifecycle history calls for
ExpectedAfter(call) ==
    IF call.op = "created" THEN call.player ELSE NoPlayer

Expected(id) ==
    ExpectedAfter(lastCall[id])

\* ------------------------------------------------ frame extraction chain

\* what MediaMetadataRetriever does when asked for a frame
Outcomes == {"frame", "null", "throw"}

\* FRAME_EXTRACTION_OPTIONS with the second and first entries exchanged
FRAME_EXTRACTION_OPTIONS_SWAPPED ==
    <<"OPTION_CLOSEST", "OPTION_CLOSEST_SYNC", "OPTION_PREVIOUS_SYNC", "OPTION_NEXT_SYNC">>

FRAME_EXTRACTION_OPTIONS ==
    <<"OPTION_CLOSEST_SYNC", "OPTION_CLOSEST", "OPTION_PREVIOUS_SYNC", "OPTION_NEXT_SYNC">>

\* the two lambdas of attemptFallbackFrameExtraction: retriever.frameAtTime
\* and retriever.getFrameAtTime(0, OPTION_CLOSEST_SYNC)
fallbackMethods ==
    <<[time |-> "none", option |-> "none"],
      [time |-> "zero", option |-> "OPTION_CLOSEST_SYNC"]>>

NumAttempts == Len(FRAME_EXTRACTION_OPTIONS) + Len(fallbackMethods)

OutcomeVectors == [1..NumAttempts -> Outcomes]

\* a loop body that gives up on the whole chain when an attempt throws
RECURSIVE attemptFallbackAbortOnThrow(_, _, _)
attemptFallbackAbortOnThrow(out, i, tried) ==
    IF i > Len(fallbackMethods) THEN [attempts |-> tried, frame |-> 0]
    ELSE LET now == Append(tried, fallbackMethods[i])
         IN  IF out[Len(now)] = "frame" THEN [attempts |-> now, frame |-> Len(now)]
             ELSE IF out[Len(now)] = "throw" THEN [attempts |-> now, frame |-> 0]
             ELSE attemptFallbackAbortOnThrow(out, i + 1, now)

\* attemptFallbackFrameExtraction: the loop over fallbackMethods from its
\* i-th entry on; a non-null bitmap returns, null or an exception continues
RECURSIVE attemptFallbackFrameExtraction(_, _, _)
attemptFallbackFrameExtraction(out, i, tried) ==
    IF i > Len(fallbackMethods) THEN [attempts |-> tried, frame |-> 0]
    ELSE LET now == Append(tried, fallbackMethods[i])
         IN  IF out[Len(now)] = "frame" THEN [attempts |-> now, frame |-> Len(now)]
             ELSE attemptFallbackFrameExtraction(out, i + 1, now)

\* the loop over FRAME_EXTRACTION_OPTIONS from its i-th entry on, then
\* "if (extractedBitmap == null) attemptFallbackFrameExtraction(retriever)"
RECURSIVE ExtractionChain(_, _, _)
ExtractionChain(out, i, tried) ==
    IF i > Len(FRAME_EXTRACTION_OPTIONS) THEN attemptFallbackFrameExtraction(out, 1, tried)
    ELSE LET now == Append(tried, [time |-> "timeUs", option |-> FRAME_EXTRACTION_OPTIONS[i]])
         IN  IF out[Len(now)] = "frame" THEN [attempts |-> now, frame |-> Len(now)]
             ELSE ExtractionChain(out, i + 1, now)

\* the frames the chain can end with: 0 when every attempt failed, else the
\* number of the attempt that produced the frame
ChainFrames ==
    {ExtractionChain(out, 1, <<>>).frame : out \in OutcomeVectors}

InitChainIdle ==
    /\ chainIn = [j \in 1..NumAttempts |-> "null"]
    /\ chainOut = [done |-> FALSE, attempts |-> <<>>, frame |-> 0]

InitChain ==
    /\ chainIn \in OutcomeVectors
    /\ chainOut = [done |-> FALSE, attempts |-> <<>>, frame |-> 0]

\* the strategy loop of extractFrameWithMediaMetadataRetriever on a
\* configured retriever
RunExtractionChain ==
    /\ ~chainOut.done
    /\ chainOut' = [done |-> TRUE] @@ ExtractionChain(chainIn, 1, <<>>)
    /\ UNCHANGED <<regVars, caller, chainIn, poolVars, ext, extractions>>
    /\ UNCHANGED androidVars
    /\ UNCHANGED iosVars
    /\ UNCHANGED auxVars
    /\ UNCHANGED extraVars
    /\ UNCHANGED lateVars

\* --------------------------------------------------------- retriever pool

\* MediaMetadataRetrieverPool(maxSize = 3)
maxSize == 3

NoRetriever == 0

InitPool ==
    /\ pool = <<>>
    /\ activeCount = 0
    /\ constructed = 0
    /\ nativeReleased = {}
    /\ ext = [w \in Workers |-> IdleExtraction]
    /\ extractions = 0

InitRegistry ==
    /\ playerRegistry = [i \in Ids |-> NoPlayer]
    /\ lastCall = [i \in Ids |-> NoCall]
    /\ looked = [id |-> 0, player |-> NoPlayer, after |-> NoCall]
    /\ listed = [done |-> FALSE, ids |-> <<>>, after |-> [i \in Ids |-> NoCall]]

\* a host thread outside the lifecycle handlers; history: the number of
\* calls it has made, the last of them, and for the call in hand the registry
\* before and after its map operation
IdleCaller(calls, prevOp, prevId) ==
    [pc |-> "idle", op |-> "none", id |-> 0, player |-> NoPlayer, calls |-> calls,
     prevOp |-> prevOp, prevId |-> prevId,
     seen |-> [i \in Ids |-> NoPlayer], left |-> [i \in Ids |-> NoPlayer]]

InitCallers ==
    caller = [c \in Callers |-> IdleCaller(0, "none", 0)]

\* onInstanceCreated(id, player), run to completion
onInstanceCreated(id, player) ==
    /\ playerRegistry' = RegistryPut(playerRegistry, id, player)
    /\ lastCall' = [lastCall EXCEPT ![id] = [op |-> "created", player |-> player]]
    /\ UNCHANGED <<looked, listed, caller, chainVars, poolVars, ext, extractions>>
    /\ UNCHANGED androidVars
    /\ UNCHANGED iosVars
    /\ UNCHANGED auxVars
    /\ UNCHANGED extraVars
    /\ UNCHANGED lateVars

\* onInstanceRemoved(id, player), run to completion
onInstanceRemoved(id, player) ==
    /\ playerRegistry' = RegistryRemove(playerRegistry, id)
    /\ lastCall' = [lastCall EXCEPT ![id] = [op |-> "removed", player |-> player]]
    /\ UNCHANGED <<looked, listed, caller, chainVars, poolVars, ext, extractions>>
    /\ UNCHANGED androidVars
    /\ UNCHANGED iosVars
    /\ UNCHANGED auxVars
    /\ UNCHANGED extraVars
    /\ UNCHANGED lateVars

\* a lookup by a request handler
LookupPlayer(id) ==
    /\ looked' = [id |-> id, player |-> getPlayerById(playerRegistry, id), after |-> lastCall[id]]
    /\ UNCHANGED <<playerRegistry, lastCall, listed, caller, chainVars, poolVars, ext, extractions>>
    /\ UNCHANGED androidVars
    /\ UNCHANGED iosVars
    /\ UNCHANGED auxVars
    /\ UNCHANGED extraVars
    /\ UNCHANGED lateVars

\* listAvailableVideos: push every key of the registry, resolve the array
listAvailableVideos ==
    /\ \E s \in Enumerations(RegistryKeys(playerRegistry)) :
          listed' = [done |-> TRUE, ids |-> s, after |-> lastCall]
    /\ UNCHANGED <<playerRegistry, lastCall, looked, caller, chainVars, poolVars, ext, extractions>>
    /\ UNCHANGED androidVars
    /\ UNCHANGED iosVars
    /\ UNCHANGED auxVars
    /\ UNCHANGED extraVars
    /\ UNCHANGED lateVars

InitSeq == InitAux /\ InitRegistry /\ InitCallers /\ InitChainIdle /\ InitPool /\ InitAndroidIdle

NextSeq ==
    \/ \E id \in Ids, p \in Handles : onInstanceCreated(id, p)
    \/ \E id \in Ids, p \in Handles : onInstanceRemoved(id, p)
    \/ \E id \in Ids : LookupPlayer(id)
    \/ listAvailableVideos

SpecSeq == InitSeq /\ [][NextSeq]_vars

\* C3: after any sequence of onInstanceCreated / onInstanceRemoved calls a
\* lookup of id returns the handle of the most recent onInstanceCreated(id, h)
\* not followed by onInstanceRemoved(id), none otherwise, and
\* listAvailableVideos returns exactly the ids that have a handle, each once.
RegistryFollowsLastCall ==
    /\ \A id \in Ids : getPlayerById(playerRegistry, id) = Expected(id)
    /\ looked.id # 0 => looked.player = ExpectedAfter(looked.after)
    /\ listed.done =>
          /\ {listed.ids[i] : i \in 1..Len(listed.ids)}
                = {id \in Ids : ExpectedAfter(listed.after[id]) # NoPlayer}
          /\ \A i, j \in 1..Len(listed.ids) : i # j => listed.ids[i] # listed.ids[j]

\* a lookup that found an overwritten handle while another id was removed
\* and the list held one id
RegistryWitness ==
    /\ looked.id # 0 /\ looked.player = 2 /\ looked.after = lastCall[looked.id]
    /\ \E id \in Ids : lastCall[id].op = "removed"
    /\ listed.done /\ Len(listed.ids) = 1 /\ listed.after = lastCall

\* ------------------------------------------- concurrent lifecycle calls

\* the ids a caller issues lifecycle calls for: pairwise disjoint
OwnedIds(c) ==
    {id \in Ids : ((id - 1) % NumCallers) + 1 = c}

\* a host thread enters onInstanceCreated or onInstanceRemoved
LifecycleCall(c, op, id, player) ==
    /\ caller[c].pc = "idle"
    /\ caller[c].calls < MaxCalls
    /\ id \in OwnedIds(c)
    /\ caller' = [caller EXCEPT ![c] = [@ EXCEPT !.pc = "mutate", !.op = op, !.id = id,
                                                 !.player = player]]
    /\ lastCall' = [lastCall EXCEPT ![id] = [op |-> op, player |-> player]]
    /\ UNCHANGED <<playerRegistry, looked, listed, chainVars, poolVars, ext, extractions>>
    /\ UNCHANGED androidVars
    /\ UNCHANGED iosVars
    /\ UNCHANGED auxVars
    /\ UNCHANGED extraVars
    /\ UNCHANGED lateVars

\* history: the key sets the registry has held since the running
\* listAvailableVideos was called
Observed(l, reg) ==
    IF l.pc = "iterating" THEN [l EXCEPT !.instants = @ \cup {RegistryKeys(reg)}] ELSE l

\* the single ConcurrentHashMap operation of the handler
LifecycleMutate(c) ==
    /\ caller[c].pc = "mutate"
    /\ playerRegistry' = IF caller[c].op = "created"
                            THEN RegistryPut(playerRegistry, caller[c].id, caller[c].player)
                            ELSE RegistryRemove(playerRegistry, caller[c].id)
    /\ caller' = [caller EXCEPT ![c].pc = "return", ![c].seen = playerRegistry,
                                 ![c].left = playerRegistry']
    /\ lister' = Observed(lister, playerRegistry')
    /\ UNCHANGED <<lastCall, looked, listed, chainVars, poolVars, ext, extractions>>
    /\ UNCHANGED androidVars
    /\ UNCHANGED iosVars
    /\ UNCHANGED <<settlements, resizeCall, waitReq>>
    /\ UNCHANGED extraVars
    /\ UNCHANGED lateVars

\* the handler emits its event, logs the registry size and returns
LifecycleReturn(c) ==
    /\ caller[c].pc = "return"
    /\ caller' = [caller EXCEPT ![c] = IdleCaller(@.calls + 1, @.op, @.id)]
    /\ UNCHANGED <<playerRegistry, lastCall, looked, listed, chainVars, poolVars, ext, extractions>>
    /\ UNCHANGED androidVars
    /\ UNCHANGED iosVars
    /\ UNCHANGED auxVars
    /\ UNCHANGED extraVars
    /\ UNCHANGED lateVars

InitConc == InitAux /\ InitRegistry /\ InitCallers /\ InitChainIdle /\ InitPool /\ InitAndroidIdle

NextConc ==
    \/ \E c \in Callers, id \in Ids, p \in Handles : LifecycleCall(c, "created", id, p)
    \/ \E c \in Callers, id \in Ids, p \in Handles : LifecycleCall(c, "removed", id, p)
    \/ \E c \in Callers : LifecycleMutate(c)
    \/ \E c \in Callers : LifecycleReturn(c)

SpecConc == InitConc /\ [][NextConc]_vars

\* C30: onInstanceRemoved(id, p) removes the entry of id only if the handle
\* registered under id is p; a removal callback for an old player that
\* arrives after a new player was registered under the id leaves the new
\* player registered.
RemovalLeavesOtherHandle ==
    \A c \in Callers :
        /\ caller[c].pc = "return" /\ caller[c].op = "removed"
        /\ caller[c].seen[caller[c].id] # caller[c].player
        => caller[c].left[caller[c].id] = caller[c].seen[caller[c].id]

\* listAvailableVideos is called on the native modules thread:
\* Arguments.createArray() and the iterator of playerRegistry.keys, which
\* walks the table of the live map in the order of its bins
ListCall ==
    /\ lister.pc = "idle"
    /\ \E order \in Enumerations(Ids) :
          lister' = [pc |-> "iterating", order |-> order, next |-> 0, ids |-> <<>>,
                     resolved |-> <<>>, instants |-> {RegistryKeys(playerRegistry)}]
    /\ UNCHANGED <<regVars, caller, chainVars, poolVars, ext, extractions>>
    /\ UNCHANGED androidVars
    /\ UNCHANGED iosVars
    /\ UNCHANGED <<settlements, resizeCall, waitReq>>
    /\ UNCHANGED extraVars
    /\ UNCHANGED lateVars

\* the iterator comes to the next bin and forEach pushes the key it holds at
\* that moment
ListVisit ==
    /\ lister.pc = "iterating"
    /\ lister.next < NumIds
    /\ LET id == lister.order[lister.next + 1]
       IN  lister' = [lister EXCEPT
                         !.next = @ + 1,
                         !.ids = IF playerRegistry[id] # NoPlayer THEN Append(@, id) ELSE @]
    /\ UNCHANGED <<regVars, caller, chainVars, poolVars, ext, extractions>>
    /\ UNCHANGED androidVars
    /\ UNCHANGED iosVars
    /\ UNCHANGED <<settlements, resizeCall, waitReq>>
    /\ UNCHANGED extraVars
    /\ UNCHANGED lateVars

\* promise.resolve(availablePlayers)
ListResolve ==
    /\ lister.pc = "iterating"
    /\ lister.next = NumIds
    /\ lister' = [lister EXCEPT !.pc = "done", !.resolved = lister.ids]
    /\ UNCHANGED <<regVars, caller, chainVars, poolVars, ext, extractions>>
    /\ UNCHANGED androidVars
    /\ UNCHANGED iosVars
    /\ UNCHANGED <<settlements, resizeCall, waitReq>>
    /\ UNCHANGED extraVars
    /\ UNCHANGED lateVars

NextList ==
    \/ \E c \in Callers, id \in Ids, p \in Handles : LifecycleCall(c, "created", id, p)
    \/ \E c \in Callers, id \in Ids, p \in Handles : LifecycleCall(c, "removed", id, p)
    \/ \E c \in Callers : LifecycleMutate(c)
    \/ \E c \in Callers : LifecycleReturn(c)
    \/ ListCall
    \/ ListVisit
    \/ ListResolve

SpecList == InitConc /\ [][NextList]_vars

\* C19: the list resolved by listAvailableVideos is the key set the registry
\* held at one single instant between the call and its return, also when
\* onInstanceCreated or onInstanceRemoved run concurrently with it, and
\* registry mutations after the return leave the returned list as it is.
ListIsSnapshot ==
    /\ [](lister.pc = "done" =>
             {lister.resolved[i] : i \in 1..Len(lister.resolved)} \in lister.instants)
    /\ [][lister.pc = "done" => lister'.resolved = lister.resolved]_vars

\* C4: with callers on pairwise disjoint ids, once every call has returned
\* the registry holds exactly the ids whose last lifecycle call was
\* onInstanceCreated, each mapped to the handle of that call.
NoLostLifecycleUpdate ==
    (\A c \in Callers : caller[c].pc = "idle")
        => \A id \in Ids : playerRegistry[id] = Expected(id)

\* every caller has returned from all its calls, one id is registered and
\* one was removed last
ConcurrentLifecycleWitness ==
    /\ \A c \in Callers : caller[c].pc = "idle"
    /\ \A c \in Callers : OwnedIds(c) # {} => caller[c].calls = MaxCalls
    /\ \E id \in Ids : lastCall[id].op = "created"
    /\ \E id \in Ids : lastCall[id].op = "removed"

\* C20: onInstanceRemoved is idempotent: for an id that is not in the
\* registry it returns without an error and leaves the registry as it was,
\* so removing the same id twice gives the registry that removing it once
\* gave.
RemoveIsIdempotent ==
    \A c \in Callers :
        caller[c].pc = "return" /\ caller[c].op = "removed" =>
            /\ caller[c].left[caller[c].id] = NoPlayer
            /\ caller[c].seen[caller[c].id] = NoPlayer => caller[c].left = caller[c].seen
            /\ caller[c].prevOp = "removed" /\ caller[c].prevId = caller[c].id
                  => caller[c].left = caller[c].seen

\* a caller has removed the id it removed in its call before, while another
\* id was registered
RemoveTwiceWitness ==
    \E c \in Callers :
        /\ caller[c].pc = "return" /\ caller[c].op = "removed"
        /\ caller[c].prevOp = "removed" /\ caller[c].prevId = caller[c].id
        /\ caller[c].seen[caller[c].id] = NoPlayer
        /\ \E j \in Ids : caller[c].seen[j] # NoPlayer
        /\ caller[c].left = playerRegistry

\* an extraction body left on the context of its caller
ExtractionContextMain == "Main"

\* "withContext(Dispatchers.IO)" of extractFrameWithMediaMetadataRetriever
ExtractionContext == "IO"

\* a poll that hands out the head of the queue and leaves it queued
PollKeep(q) ==
    q

\* what pool.poll() leaves in the queue
PollRest(q) ==
    IF q = <<>> THEN q ELSE Tail(q)

\* a capacity test that always admits the retriever
BelowCapacityAlways(size) ==
    TRUE

\* the test "pool.size < maxSize" of release, on the size it read
BelowCapacity(size) ==
    size < maxSize

\* a caller enters extractFrameWithMediaMetadataRetriever(uri, timeUs)
ExtractCall(w) ==
    /\ ext[w].pc = "idle"
    /\ extractions < MaxExtractions
    /\ ext' = [ext EXCEPT ![w].pc = "acquire", ![w].ctx = ExtractionContext]
    /\ extractions' = extractions + 1
    /\ UNCHANGED <<regVars, caller, chainVars, poolVars>>
    /\ UNCHANGED androidVars
    /\ UNCHANGED iosVars
    /\ UNCHANGED auxVars
    /\ UNCHANGED extraVars
    /\ UNCHANGED lateVars

\* retrieverPool.acquire(): pool.poll() ?: MediaMetadataRetriever(), then
\* activeCount.incrementAndGet()
Acquire(w) ==
    /\ ext[w].pc = "acquire"
    /\ IF pool # <<>>
         THEN /\ ext' = [ext EXCEPT ![w].pc = "extract", ![w].retriever = Head(pool)]
              /\ constructed' = constructed
         ELSE /\ ext' = [ext EXCEPT ![w].pc = "extract", ![w].retriever = constructed + 1]
              /\ constructed' = constructed + 1
    /\ pool' = PollRest(pool)
    /\ activeCount' = activeCount + 1
    /\ UNCHANGED <<regVars, caller, chainVars, nativeReleased, extractions>>
    /\ UNCHANGED androidVars
    /\ UNCHANGED iosVars
    /\ UNCHANGED auxVars
    /\ UNCHANGED extraVars
    /\ UNCHANGED lateVars

\* configureRetrieverDataSource, then the strategy chain; an exception of
\* the former is caught by the outer catch, which yields null
ConfigureAndExtract(w) ==
    /\ ext[w].pc = "extract"
    /\ \E configured \in BOOLEAN, frame \in ChainFrames :
          ext' = [ext EXCEPT ![w].pc = "release",
                             ![w].bitmap = IF configured /\ frame # 0
                                             THEN "frame" ELSE "none",
                             ![w].fail = IF ~configured THEN "configure"
                                         ELSE IF frame = 0 THEN "chain"
                                         ELSE "none"]
    /\ UNCHANGED <<regVars, caller, chainVars, poolVars, extractions>>
    /\ UNCHANGED androidVars
    /\ UNCHANGED iosVars
    /\ UNCHANGED auxVars
    /\ UNCHANGED extraVars
    /\ UNCHANGED lateVars

\* retrieverPool.release, first half: read pool.size
ReleaseReadSize(w) ==
    /\ ext[w].pc = "release"
    /\ ext' = [ext EXCEPT ![w].pc = "releaseAct", ![w].sizeSeen = Len(pool)]
    /\ UNCHANGED <<regVars, caller, chainVars, poolVars, extractions>>
    /\ UNCHANGED androidVars
    /\ UNCHANGED iosVars
    /\ UNCHANGED auxVars
    /\ UNCHANGED extraVars
    /\ UNCHANGED lateVars

\* a release that counts down only when it discards the retriever
ReleaseCountsDiscards(w) ==
    /\ ext[w].pc = "releaseAct"
    /\ IF BelowCapacity(ext[w].sizeSeen)
         THEN /\ pool' = Append(pool, ext[w].retriever)
              /\ nativeReleased' = nativeReleased
              /\ activeCount' = activeCount
         ELSE /\ pool' = pool
              /\ nativeReleased' = nativeReleased \cup {ext[w].retriever}
              /\ activeCount' = activeCount - 1
    /\ ext' = [ext EXCEPT ![w].pc = "returned", ![w].retriever = NoRetriever,
                          ![w].sizeSeen = 0]
    /\ UNCHANGED <<regVars, caller, chainVars, constructed, extractions>>
    /\ UNCHANGED androidVars
    /\ UNCHANGED iosVars
    /\ UNCHANGED auxVars
    /\ UNCHANGED extraVars
    /\ UNCHANGED lateVars

\* retrieverPool.release, second half: pool.offer(retriever) or
\* retriever.release(), then activeCount.decrementAndGet(); the call returns
ReleaseAct(w) ==
    /\ ext[w].pc = "releaseAct"
    /\ IF BelowCapacity(ext[w].sizeSeen)
         THEN /\ pool' = Append(pool, ext[w].retriever)
              /\ nativeReleased' = nativeReleased
         ELSE /\ pool' = pool
              /\ nativeReleased' = nativeReleased \cup {ext[w].retriever}
    /\ activeCount' = activeCount - 1
    /\ ext' = [ext EXCEPT ![w].pc = "returned", ![w].retriever = NoRetriever,
                          ![w].sizeSeen = 0]
    /\ UNCHANGED <<regVars, caller, chainVars, constructed, extractions>>
    /\ UNCHANGED androidVars
    /\ UNCHANGED iosVars
    /\ UNCHANGED auxVars
    /\ UNCHANGED extraVars
    /\ UNCHANGED lateVars

\* the caller takes the returned bitmap
ExtractReturn(w) ==
    /\ ext[w].pc = "returned"
    /\ ext' = [ext EXCEPT ![w] = IdleExtraction]
    /\ UNCHANGED <<regVars, caller, chainVars, poolVars, extractions>>
    /\ UNCHANGED androidVars
    /\ UNCHANGED iosVars
    /\ UNCHANGED auxVars
    /\ UNCHANGED extraVars
    /\ UNCHANGED lateVars

InitPoolSpec == InitAux /\ InitRegistry /\ InitCallers /\ InitChainIdle /\ InitPool /\ InitAndroidIdle

NextPool ==
    \/ \E w \in Workers : ExtractCall(w)
    \/ \E w \in Workers : Acquire(w)
    \/ \E w \in Workers : ConfigureAndExtract(w)
    \/ \E w \in Workers : ReleaseReadSize(w)
    \/ \E w \in Workers : ReleaseAct(w)
    \/ \E w \in Workers : ExtractReturn(w)

SpecPool == InitPoolSpec /\ [][NextPool]_vars

\* the retrievers in use by extraction calls
Held == {ext[w].retriever : w \in Workers} \ {NoRetriever}

Idle == {pool[i] : i \in 1..Len(pool)}

\* C6: under any interleaving of concurrent acquire and release calls the
\* pool never holds more than maxSize idle retrievers.
PoolWithinCapacity ==
    Len(pool) <= maxSize

\* C7: no retriever is held by two extraction calls at the same time, and
\* no retriever is both idle in the pool and in use by an extraction call.
RetrieverExclusive ==
    /\ \A v, w \in Workers :
          v # w /\ ext[v].retriever # NoRetriever => ext[v].retriever # ext[w].retriever
    /\ Held \cap Idle = {}

\* C34: every retriever acquired by an extraction call is released to the
\* pool exactly once before the call returns (a strategy succeeded, all
\* strategies failed, or configuring the data source threw), so activeCount
\* is never negative and is 0 whenever no extraction call is in flight.
RetrieverReleasedOnce ==
    /\ activeCount >= 0
    /\ activeCount = Cardinality({w \in Workers : ext[w].pc \in {"extract", "release", "releaseAct"}})
    /\ \A w \in Workers :
          /\ ext[w].pc \in {"extract", "release", "releaseAct"} <=> ext[w].retriever # NoRetriever
          /\ ext[w].pc = "returned" => ext[w].fail \in {"none", "chain", "configure"}
    /\ \A k \in 1..constructed :
          Cardinality({w \in Workers : ext[w].retriever = k})
            + Cardinality({i \in 1..Len(pool) : pool[i] = k})
            + (IF k \in nativeReleased THEN 1 ELSE 0) = 1

\* a call whose data source could not be configured has returned, its
\* retriever is idle in the pool and no call is in flight
RetrieverReleasedWitness ==
    /\ \E w \in Workers : ext[w].pc = "returned" /\ ext[w].fail = "configure"
    /\ \A w \in Workers : ext[w].pc \in {"idle", "returned"}
    /\ activeCount = 0
    /\ pool # <<>>

\* two calls hold retrievers at once, one of them taken from the pool, while
\* another retriever is idle in the pool
RetrieverExclusiveWitness ==
    /\ Cardinality(Held) >= 2
    /\ pool # <<>>
    /\ \E w \in Workers : ext[w].pc = "extract" /\ ext[w].retriever < constructed
    /\ extractions > constructed

InitChainSpec == InitAux /\ InitRegistry /\ InitCallers /\ InitChain /\ InitPool /\ InitAndroidIdle

NextChain == RunExtractionChain

SpecChain == InitChainSpec /\ [][NextChain]_vars

\* the order of strategies the extraction is documented to follow
StrategyOrder ==
    <<[time |-> "timeUs", option |-> "OPTION_CLOSEST_SYNC"],
      [time |-> "timeUs", option |-> "OPTION_CLOSEST"],
      [time |-> "timeUs", option |-> "OPTION_PREVIOUS_SYNC"],
      [time |-> "timeUs", option |-> "OPTION_NEXT_SYNC"],
      [time |-> "none", option |-> "none"],
      [time |-> "zero", option |-> "OPTION_CLOSEST_SYNC"]>>

\* the first attempt the framework answers with a frame, or one past the end
FirstFrame(out) ==
    IF \E j \in 1..NumAttempts : out[j] = "frame"
      THEN CHOOSE j \in 1..NumAttempts :
              out[j] = "frame" /\ \A k \in 1..(j - 1) : out[k] # "frame"
      ELSE NumAttempts + 1

\* C2: the chain attempts closest-sync, closest, previous-sync, next-sync at
\* the target time, then any frame, then the frame at time 0, in this order;
\* it returns the frame of the first attempt that yields one and attempts
\* nothing after it; an attempt that throws or returns null is followed by
\* the next one.
StrategiesInOrder ==
    chainOut.done =>
        LET k == FirstFrame(chainIn)
        IN  IF k <= NumAttempts
              THEN chainOut.attempts = SubSeq(StrategyOrder, 1, k) /\ chainOut.frame = k
              ELSE chainOut.attempts = StrategyOrder /\ chainOut.frame = 0

\* a chain whose first attempts returned null and threw before the fifth
\* attempt produced the frame
StrategiesInOrderWitness ==
    /\ chainOut.done /\ chainOut.frame = 5
    /\ chainIn[1] = "null" /\ chainIn[2] = "throw"
    /\ Len(chainOut.attempts) = 5

\* ---------------------------------------------- Android request pipeline

\* a capture body left on the context of the scope
CaptureContextMain == "Main"

\* "CoroutineScope(Dispatchers.Main + SupervisorJob())"
ScopeContext == "Main"
\* "withContext(Dispatchers.IO)" of captureFrameFromPlayer
CaptureContext == "IO"
\* "withContext(Dispatchers.Main)" around player.currentPosition
TimestampContext == "Main"
\* "withContext(Dispatchers.Main)" around extractVideoInfo
VideoInfoContext == "Main"
\* "withContext(Dispatchers.Main)" of createFallbackPlaceholder
PlaceholderInfoContext == "Main"
\* "withContext(Dispatchers.Default)" of createFallbackPlaceholder
PlaceholderDrawContext == "Default"
\* "withContext(Dispatchers.IO)" of saveImageToMediaStore
SaveContext == "IO"
\* "withContext(Dispatchers.Main)" of isScreenshotSupported
ReadyCheckContext == "Main"
\* "withContext(Dispatchers.Main)" of getVideoDimensions
DimensionsContext == "Main"

\* player.currentMediaItem?.localConfiguration?.uri != null
HasMediaUri(h) == exoPlayer[h] # "empty"

\* player.videoSize
VideoSizeOf(h) ==
    IF exoPlayer[h] = "ready" THEN [w |-> VideoWidth, h |-> VideoHeight] ELSE UnknownSize

\* player.playbackState == Player.STATE_READY && player.videoFormat != null
isPlayerReadyForScreenshot(h) == exoPlayer[h] = "ready"

\* promise.reject(code, ...) ends the coroutine
Rejected(q, code) ==
    [q EXCEPT !.pc = "done", !.code = code, !.settled = @ + 1]

\* promise.resolve(value) ends the coroutine
Resolved(q, value) ==
    [q EXCEPT !.pc = "done", !.code = "resolved", !.value = value, !.settled = @ + 1]

\* the code each request method rejects with from its catch block
RejectCode(kind) ==
    CASE kind = "captureScreenshot" -> "CAPTURE_FAILED"
      [] kind = "getVideoDimensions" -> "GET_DIMENSIONS_FAILED"
      [] OTHER -> "SAVE_FAILED"

\* a division that drops the fraction
TruncDiv(a, d) == a \div d

\* Math.round(a / d) for a >= 0, d > 0
RoundDiv(a, d) == (2 * a + d) \div (2 * d)

\* a placeholder of the default size whatever the video size is
FallbackDefaultSize(videoSize) ==
    [kind |-> "placeholder", w |-> 1920, h |-> 1080, scaled |-> FALSE]

\* a fallback that gives up and returns null
FallbackNull(videoSize) ==
    NoBitmap

\* createFallbackPlaceholder: the bitmap drawn when no frame was extracted
createFallbackPlaceholder(videoSize) ==
    [kind |-> "placeholder",
     w |-> IF videoSize.w > 0 THEN videoSize.w ELSE 1920,
     h |-> IF videoSize.h > 0 THEN videoSize.h ELSE 1080,
     scaled |-> FALSE]

\* a resize that applies the scale also when it is 1 or more
resizeAlwaysScale(bitmap, maxWidth, maxHeight) ==
    IF maxWidth <= 0 /\ maxHeight <= 0 THEN bitmap
    ELSE LET useX == maxWidth > 0 /\ (maxHeight <= 0 \/ maxWidth * bitmap.h <= maxHeight * bitmap.w)
             n == IF useX THEN maxWidth ELSE maxHeight
             d == IF useX THEN bitmap.w ELSE bitmap.h
         IN  [kind |-> bitmap.kind, w |-> (2 * bitmap.w * n + d) \div (2 * d),
              h |-> (2 * bitmap.h * n + d) \div (2 * d), scaled |-> TRUE]

\* resizeBitmapMaintainingAspectRatio; the scale is kept as the fraction
\* n / d, and a result with a side of 0 pixels stands for the
\* IllegalArgumentException of Bitmap.createBitmap
resizeBitmapMaintainingAspectRatio(bitmap, maxWidth, maxHeight) ==
    IF maxWidth <= 0 /\ maxHeight <= 0 THEN bitmap
    ELSE LET useX == maxWidth > 0 /\ (maxHeight <= 0 \/ maxWidth * bitmap.h <= maxHeight * bitmap.w)
             n == IF useX THEN maxWidth ELSE maxHeight
             d == IF useX THEN bitmap.w ELSE bitmap.h
         IN  IF n >= d THEN bitmap
             ELSE [kind |-> bitmap.kind, w |-> RoundDiv(bitmap.w * n, d),
                   h |-> RoundDiv(bitmap.h * n, d), scaled |-> TRUE]

\* the host drives a player: it loads an item and presents it, or drops it
HostDrivesPlayer(h) ==
    /\ exoPlayer' = [exoPlayer EXCEPT ![h] = IF @ = "empty" THEN "ready" ELSE "empty"]
    /\ UNCHANGED <<regVars, caller, chainVars, poolVars, ext, extractions>>
    /\ UNCHANGED iosVars
    /\ UNCHANGED auxVars
    /\ UNCHANGED extraVars
    /\ UNCHANGED lateVars
    /\ UNCHANGED <<req, mediaStore, files, destroyed>>

\* a @ReactMethod is called: screenshotScope.launch { ... }
Launch(r, kind, id, opts) ==
    /\ req[r].pc = "idle"
    /\ req[r].settled = 0
    /\ req' = [req EXCEPT ![r] = [IdleRequest EXCEPT !.pc = "lookup", !.kind = kind,
                                                     !.id = id, !.opts = opts,
                                                     !.ctx = ScopeContext]]
    /\ UNCHANGED <<regVars, caller, chainVars, poolVars, ext, extractions>>
    /\ UNCHANGED iosVars
    /\ UNCHANGED auxVars
    /\ UNCHANGED extraVars
    /\ UNCHANGED lateVars
    /\ UNCHANGED <<exoPlayer, mediaStore, files, destroyed>>

\* the first statement of every request: getPlayerById(videoId) ?: reject
Lookup(r) ==
    /\ req[r].pc = "lookup"
    /\ LET p == getPlayerById(playerRegistry, req[r].id)
           q == [req[r] EXCEPT !.registered =
                    IF playerRegistry[req[r].id] # NoPlayer THEN "yes" ELSE "no"]
       IN  req' = [req EXCEPT ![r] =
              IF p = NoPlayer
                THEN IF q.kind = "isScreenshotSupported"
                       THEN Resolved(q, "false")
                       ELSE Rejected(q, "PLAYER_NOT_FOUND")
                ELSE [q EXCEPT !.player = p,
                               !.pc = CASE q.kind = "isScreenshotSupported" -> "checkReady"
                                        [] q.kind = "getVideoDimensions" -> "readSize"
                                        [] OTHER -> "timestamp",
                               !.ctx = IF q.kind \in CaptureKinds
                                         THEN CaptureContext ELSE q.ctx]]
    /\ UNCHANGED <<regVars, caller, chainVars, poolVars, ext, extractions>>
    /\ UNCHANGED iosVars
    /\ UNCHANGED auxVars
    /\ UNCHANGED extraVars
    /\ UNCHANGED lateVars
    /\ UNCHANGED <<exoPlayer, mediaStore, files, destroyed>>

\* isScreenshotSupported: read the player state, resolve the boolean
CheckReady(r) ==
    /\ req[r].pc = "checkReady"
    /\ LET q == [req[r] EXCEPT !.fx = @ \cup {<<"playbackState", ReadyCheckContext>>,
                                               <<"videoFormat", ReadyCheckContext>>}]
       IN  req' = [req EXCEPT ![r] =
              Resolved(q, IF isPlayerReadyForScreenshot(q.player) THEN "true" ELSE "false")]
    /\ UNCHANGED <<regVars, caller, chainVars, poolVars, ext, extractions>>
    /\ UNCHANGED iosVars
    /\ UNCHANGED auxVars
    /\ UNCHANGED extraVars
    /\ UNCHANGED lateVars
    /\ UNCHANGED <<exoPlayer, mediaStore, files, destroyed>>

\* getVideoDimensions: read player.videoSize; UNKNOWN throws into the catch
ReadDimensions(r) ==
    /\ req[r].pc = "readSize"
    /\ LET q == [req[r] EXCEPT !.fx = @ \cup {<<"videoSize", DimensionsContext>>}]
       IN  req' = [req EXCEPT ![r] =
              IF VideoSizeOf(q.player) = UnknownSize
                THEN Rejected([q EXCEPT !.error = "IllegalStateException"], RejectCode(q.kind))
                ELSE Resolved(q, "dimensions")]
    /\ UNCHANGED <<regVars, caller, chainVars, poolVars, ext, extractions>>
    /\ UNCHANGED iosVars
    /\ UNCHANGED auxVars
    /\ UNCHANGED extraVars
    /\ UNCHANGED lateVars
    /\ UNCHANGED <<exoPlayer, mediaStore, files, destroyed>>

\* captureFrameFromPlayer: parse the options, read the playback position if
\* a timestamp was requested
ReadTimestamp(r) ==
    /\ req[r].pc = "timestamp"
    /\ req' = [req EXCEPT ![r].pc = "videoInfo",
                          ![r].fx = IF req[r].opts.includeTimestamp
                                      THEN @ \cup {<<"currentPosition", TimestampContext>>}
                                      ELSE @]
    /\ UNCHANGED <<regVars, caller, chainVars, poolVars, ext, extractions>>
    /\ UNCHANGED iosVars
    /\ UNCHANGED auxVars
    /\ UNCHANGED extraVars
    /\ UNCHANGED lateVars
    /\ UNCHANGED <<exoPlayer, mediaStore, files, destroyed>>

\* extractVideoFrame: extractVideoInfo(player), then either the placeholder
\* (no uri) or the call of extractFrameWithMediaMetadataRetriever
ReadVideoInfo(r) ==
    /\ req[r].pc = "videoInfo"
    /\ LET uri == HasMediaUri(req[r].player)
       IN  /\ req' = [req EXCEPT ![r].pc = IF uri THEN "extracting" ELSE "placeholderInfo",
                                 ![r].info = [uri |-> uri, videoSize |-> VideoSizeOf(req[r].player)],
                                 ![r].fail = IF uri THEN "none" ELSE "nouri",
                                 ![r].fx = @ \cup {<<"currentMediaItem", VideoInfoContext>>,
                                                   <<"currentPosition", VideoInfoContext>>,
                                                   <<"videoSize", VideoInfoContext>>}]
           /\ IF uri
                THEN /\ ext' = [ext EXCEPT ![r].pc = "acquire", ![r].ctx = ExtractionContext]
                     /\ extractions' = extractions + 1
                ELSE UNCHANGED <<ext, extractions>>
    /\ UNCHANGED <<regVars, caller, chainVars, poolVars>>
    /\ UNCHANGED iosVars
    /\ UNCHANGED auxVars
    /\ UNCHANGED extraVars
    /\ UNCHANGED lateVars
    /\ UNCHANGED <<exoPlayer, mediaStore, files, destroyed>>

\* extractVideoFrame after extractFrameWithMediaMetadataRetriever returned:
\* the frame if there is one, else on to the placeholder
AfterExtract(r) ==
    /\ req[r].pc = "extracting"
    /\ ext[r].pc = "returned"
    /\ req' = [req EXCEPT ![r].pc = IF ext[r].bitmap = "frame" THEN "process" ELSE "placeholderInfo",
                          ![r].bitmap = IF ext[r].bitmap = "frame"
                                          THEN [kind |-> "frame", w |-> VideoWidth,
                                                h |-> VideoHeight, scaled |-> FALSE]
                                          ELSE @,
                          ![r].fail = ext[r].fail,
                          ![r].fx = @ \cup {<<"acquire", ext[r].ctx>>, <<"extract", ext[r].ctx>>}]
    /\ ext' = [ext EXCEPT ![r] = IdleExtraction]
    /\ UNCHANGED <<regVars, caller, chainVars, poolVars, extractions>>
    /\ UNCHANGED iosVars
    /\ UNCHANGED auxVars
    /\ UNCHANGED extraVars
    /\ UNCHANGED lateVars
    /\ UNCHANGED <<exoPlayer, mediaStore, files, destroyed>>

\* createFallbackPlaceholder, first half: position and duration of the player
PlaceholderInfo(r) ==
    /\ req[r].pc = "placeholderInfo"
    /\ req' = [req EXCEPT ![r].pc = "placeholderDraw",
                          ![r].fx = @ \cup {<<"currentPosition", PlaceholderInfoContext>>,
                                            <<"duration", PlaceholderInfoContext>>}]
    /\ UNCHANGED <<regVars, caller, chainVars, poolVars, ext, extractions>>
    /\ UNCHANGED iosVars
    /\ UNCHANGED auxVars
    /\ UNCHANGED extraVars
    /\ UNCHANGED lateVars
    /\ UNCHANGED <<exoPlayer, mediaStore, files, destroyed>>

\* createFallbackPlaceholder, second half: the bitmap is created and drawn
PlaceholderDraw(r) ==
    /\ req[r].pc = "placeholderDraw"
    /\ req' = [req EXCEPT ![r].pc = "process",
                          ![r].bitmap = createFallbackPlaceholder(req[r].info.videoSize),
                          ![r].fx = @ \cup {<<"draw", PlaceholderDrawContext>>}]
    /\ UNCHANGED <<regVars, caller, chainVars, poolVars, ext, extractions>>
    /\ UNCHANGED iosVars
    /\ UNCHANGED auxVars
    /\ UNCHANGED extraVars
    /\ UNCHANGED lateVars
    /\ UNCHANGED <<exoPlayer, mediaStore, files, destroyed>>

\* what saveImageToMediaStore can come to: the entry is inserted, written
\* and published; insert returns null; insert is refused for want of the
\* storage permission; openOutputStream returns null after the insert; the
\* 10 s of withTimeout run out before or after the insert
StoreOutcomes ==
    {"saved", "insertNull", "security", "streamNull", "timeout", "timeoutPending"}

\* what saveImageDataToFile can come to
FileOutcomes == {"written", "ioerror"}

\* captureFrameFromPlayer after extractVideoFrame: the null check, the
\* resize, compressBitmapToByteArray, Base64 and the result map
Process(r) ==
    /\ req[r].pc = "process"
    /\ LET q == req[r]
           resize == q.opts.maxWidth > 0 \/ q.opts.maxHeight > 0
           processed == IF resize
                          THEN resizeBitmapMaintainingAspectRatio(q.bitmap, q.opts.maxWidth,
                                                                  q.opts.maxHeight)
                          ELSE q.bitmap
       IN  IF q.bitmap = NoBitmap
             THEN req' = [req EXCEPT ![r].pc = "settle", ![r].error = "FrameExtractionFailed"]
             ELSE IF processed.w < 1 \/ processed.h < 1
               THEN req' = [req EXCEPT ![r].pc = "settle",
                                       ![r].error = "IllegalArgumentException",
                                       ![r].fx = @ \cup {<<"resize", q.ctx>>}]
               ELSE \E complete \in BOOLEAN :
                      LET data == [complete |-> complete, w |-> processed.w, h |-> processed.h,
                                   format |-> q.opts.format, quality |-> q.opts.quality]
                      IN  req' = [req EXCEPT
                             ![r].pc = "dispatch",
                             ![r].processed = processed,
                             ![r].imageData = data,
                             ![r].result = [base64 |-> data, width |-> processed.w,
                                            height |-> processed.h,
                                            timestamp |-> q.opts.includeTimestamp,
                                            uri |-> "none", size |-> FALSE],
                             ![r].fx = @ \cup {<<"encode", q.ctx>>}
                                         \cup (IF resize THEN {<<"resize", q.ctx>>} ELSE {})]
    /\ UNCHANGED <<regVars, caller, chainVars, poolVars, ext, extractions>>
    /\ UNCHANGED iosVars
    /\ UNCHANGED auxVars
    /\ UNCHANGED extraVars
    /\ UNCHANGED lateVars
    /\ UNCHANGED <<exoPlayer, mediaStore, files, destroyed>>

\* the "when (outputMode)" of captureFrameFromPlayer
Dispatch(r) ==
    /\ req[r].pc = "dispatch"
    /\ CASE req[r].kind = "saveScreenshotToLibrary" ->
              \E outcome \in StoreOutcomes :
                /\ req' = [req EXCEPT
                      ![r].pc = "settle",
                      ![r].fx = @ \cup {<<"mediaStoreInsert", SaveContext>>},
                      ![r].result = IF outcome = "saved" THEN [@ EXCEPT !.uri = "content"] ELSE @,
                      ![r].error = CASE outcome = "saved" -> "none"
                                     [] outcome = "security" -> "SecurityException"
                                     [] outcome \in {"timeout", "timeoutPending"}
                                          -> "TimeoutCancellationException"
                                     [] OTHER -> "IOException"]
                /\ mediaStore' = CASE outcome = "saved" ->
                                        mediaStore \cup {[by |-> r, pending |-> FALSE,
                                                          format |-> req[r].opts.format,
                                                          quality |-> 90]}
                                   [] outcome \in {"streamNull", "timeoutPending"} ->
                                        mediaStore \cup {[by |-> r, pending |-> TRUE,
                                                          format |-> req[r].opts.format,
                                                          quality |-> 90]}
                                   [] OTHER -> mediaStore
                /\ files' = files
        [] req[r].kind = "saveScreenshotToPath" ->
              \E outcome \in FileOutcomes :
                /\ req' = [req EXCEPT
                      ![r].pc = "settle",
                      ![r].fx = @ \cup {<<"fileWrite", req[r].ctx>>},
                      ![r].result = IF outcome = "written"
                                      THEN [@ EXCEPT !.uri = "path", !.size = TRUE] ELSE @,
                      ![r].error = IF outcome = "written" THEN "none" ELSE "IOException"]
                /\ files' = IF outcome = "written"
                              THEN files \cup {[by |-> r, bytes |-> req[r].imageData]}
                              ELSE files
                /\ mediaStore' = mediaStore
        [] OTHER ->
              /\ req' = [req EXCEPT ![r].pc = "settle"]
              /\ UNCHANGED <<mediaStore, files>>
    /\ UNCHANGED <<regVars, caller, chainVars, poolVars, ext, extractions>>
    /\ UNCHANGED iosVars
    /\ UNCHANGED auxVars
    /\ UNCHANGED extraVars
    /\ UNCHANGED lateVars
    /\ UNCHANGED <<exoPlayer, destroyed>>

\* back in the launched coroutine: promise.resolve(result), or the catch
\* block and its promise.reject
Settle(r) ==
    /\ req[r].pc = "settle"
    /\ req' = [req EXCEPT ![r] =
          IF @.error = "none"
            THEN Resolved([@ EXCEPT !.ctx = ScopeContext], "result")
            ELSE Rejected([@ EXCEPT !.ctx = ScopeContext], RejectCode(@.kind))]
    /\ UNCHANGED <<regVars, caller, chainVars, poolVars, ext, extractions>>
    /\ UNCHANGED iosVars
    /\ UNCHANGED auxVars
    /\ UNCHANGED extraVars
    /\ UNCHANGED lateVars
    /\ UNCHANGED <<exoPlayer, mediaStore, files, destroyed>>

\* onCatalystInstanceDestroy: retrieverPool.clear() polls and releases every
\* idle retriever; the scope and its requests are left running
onCatalystInstanceDestroy ==
    /\ ~destroyed
    /\ destroyed' = TRUE
    /\ pool' = <<>>
    /\ nativeReleased' = nativeReleased \cup {pool[i] : i \in 1..Len(pool)}
    /\ UNCHANGED <<regVars, caller, chainVars, activeCount, constructed, ext, extractions>>
    /\ UNCHANGED iosVars
    /\ UNCHANGED auxVars
    /\ UNCHANGED extraVars
    /\ UNCHANGED lateVars
    /\ UNCHANGED <<req, exoPlayer, mediaStore, files>>

InitAndroidSpec == InitAux /\ InitRegistry /\ InitCallers /\ InitChainIdle /\ InitPool /\ InitAndroid

NextAndroid ==
    \/ \E id \in Ids, p \in Handles : onInstanceCreated(id, p)
    \/ \E id \in Ids, p \in Handles : onInstanceRemoved(id, p)
    \/ \E h \in Handles : HostDrivesPlayer(h)
    \/ \E r \in Reqs, k \in CaptureKinds, id \in Ids, o \in OptionSets : Launch(r, k, id, o)
    \/ \E r \in Reqs, k \in Kinds \ CaptureKinds, id \in Ids : Launch(r, k, id, NoOptions)
    \/ \E r \in Reqs : Lookup(r)
    \/ \E r \in Reqs : CheckReady(r)
    \/ \E r \in Reqs : ReadDimensions(r)
    \/ \E r \in Reqs : ReadTimestamp(r)
    \/ \E r \in Reqs : ReadVideoInfo(r)
    \/ \E r \in Reqs : Acquire(r)
    \/ \E r \in Reqs : ConfigureAndExtract(r)
    \/ \E r \in Reqs : ReleaseReadSize(r)
    \/ \E r \in Reqs : ReleaseAct(r)
    \/ \E r \in Reqs : AfterExtract(r)
    \/ \E r \in Reqs : PlaceholderInfo(r)
    \/ \E r \in Reqs : PlaceholderDraw(r)
    \/ \E r \in Reqs : Process(r)
    \/ \E r \in Reqs : Dispatch(r)
    \/ \E r \in Reqs : Settle(r)
    \/ onCatalystInstanceDestroy

SpecAndroid == InitAndroidSpec /\ [][NextAndroid]_vars

\* the effects a request has performed, without their contexts
Effects(r) == {e[1] : e \in req[r].fx}

PastExtraction == {"process", "dispatch", "settle", "done"}

\* C1: a capture or save request on a registered player is never rejected
\* because frame extraction failed: with no media uri, with a data source
\* that cannot be configured, or with all six strategies failing, the frame
\* is a synthesized placeholder and the request goes on to resize, encode
\* and dispatch.
ExtractionFailureYieldsPlaceholder ==
    \A r \in Reqs :
        req[r].kind \in CaptureKinds /\ req[r].fail # "none" =>
            /\ req[r].error # "FrameExtractionFailed"
            /\ req[r].pc \in PastExtraction => req[r].bitmap.kind = "placeholder"
            /\ req[r].pc = "done" /\ req[r].code # "resolved" =>
                  req[r].error \in {"IllegalArgumentException", "IOException",
                                    "SecurityException", "TimeoutCancellationException"}

\* a save to a path resolved with a placeholder after all six strategies
\* failed
ExtractionFailureWitness ==
    \E r \in Reqs :
        /\ req[r].kind = "saveScreenshotToPath" /\ req[r].fail = "chain"
        /\ req[r].pc = "done" /\ req[r].code = "resolved"
        /\ req[r].bitmap.kind = "placeholder"
        /\ {"acquire", "extract", "draw", "encode", "fileWrite"} \subseteq Effects(r)

\* C5: a capture, save or dimensions request whose id is not in the registry
\* when the lookup runs is rejected with PLAYER_NOT_FOUND and performs no
\* player read, pool acquire, extraction, encoding or write.
UnknownPlayerRejected ==
    \A r \in Reqs :
        req[r].registered = "no" /\ req[r].kind # "isScreenshotSupported" =>
            /\ req[r].pc = "done" /\ req[r].code = "PLAYER_NOT_FOUND" /\ req[r].settled = 1
            /\ req[r].fx = {}
            /\ ext[r].pc = "idle"
            /\ \A e \in mediaStore \cup files : e.by # r

\* a save to the library rejected for an id that was registered when the
\* request was made and removed before its lookup ran
UnknownPlayerWitness ==
    \E r \in Reqs :
        /\ req[r].registered = "no" /\ req[r].kind = "saveScreenshotToLibrary"
        /\ req[r].code = "PLAYER_NOT_FOUND"
        /\ lastCall[req[r].id].op = "removed"

PlayerReads == {"currentPosition", "duration", "videoSize", "currentMediaItem",
                "playbackState", "videoFormat"}

HeavyWork == {"acquire", "extract", "resize", "encode", "draw", "mediaStoreInsert",
              "fileWrite"}

\* C8: every read of player state runs on the Main context, and frame
\* extraction, resizing, encoding, placeholder drawing and persisted writes
\* never run on the Main context.
PlayerReadsOnMainWorkOffMain ==
    /\ \A r \in Reqs : \A e \in req[r].fx :
          /\ e[1] \in PlayerReads => e[2] = "Main"
          /\ e[1] \in HeavyWork => e[2] # "Main"
    /\ \A w \in Workers : ext[w].pc # "idle" => ext[w].ctx # "Main"

\* a library save that read the player, failed to extract, drew a
\* placeholder, resized, encoded and wrote it
ContextWitness ==
    \E r \in Reqs :
        /\ req[r].pc = "done"
        /\ {"currentPosition", "duration", "videoSize", "currentMediaItem"} \subseteq Effects(r)
        /\ {"extract", "draw", "resize", "encode", "mediaStoreInsert"} \subseteq Effects(r)

\* C10: saveScreenshotToLibrary checks the authorization before any write to
\* the shared media store, and without authorization it fails with a
\* permission error without attempting the write.
AuthorizationBeforeStoreWrite ==
    \A r \in Reqs :
        /\ "mediaStoreInsert" \in Effects(r) => "authorizationCheck" \in Effects(r)
        /\ req[r].error = "SecurityException" =>
              "mediaStoreInsert" \notin Effects(r) /\ req[r].code \in {"none", "PERMISSION_DENIED"}

\* C12: a request whose encoder failed on the processed frame ends rejected
\* with an encoding error, and no request resolves with a payload that a
\* failed encode left empty or partial.
EncodeFailureRejected ==
    \A r \in Reqs :
        /\ req[r].pc = "done" /\ "encode" \in Effects(r) /\ ~req[r].imageData.complete =>
              req[r].code # "resolved" /\ req[r].error = "EncodeFailed"
        /\ req[r].kind \in CaptureKinds /\ req[r].code = "resolved" =>
              req[r].result.base64.complete

\* C31: after onInstanceRemoved(id) has returned, no request reads state
\* from the removed player: a request that looked the player up before the
\* removal reads neither its position, duration, video size nor media item
\* afterwards.
NoReadAfterRemoval ==
    [][\A r \in Reqs :
          /\ req[r].player # NoPlayer
          /\ lastCall[req[r].id] = [op |-> "removed", player |-> req[r].player]
          => {e \in req'[r].fx : e[1] \in PlayerReads} \subseteq req[r].fx]_vars

\* C36: a saveScreenshotToLibrary or saveScreenshotToPath request that is
\* rejected, the 10 s timeout included, leaves nothing persisted by that
\* request: no media-store entry, pending or published, and no file at the
\* target path.
RejectedSaveLeavesNothing ==
    \A r \in Reqs :
        /\ req[r].kind \in {"saveScreenshotToLibrary", "saveScreenshotToPath"}
        /\ req[r].pc = "done" /\ req[r].code # "resolved"
        => \A e \in mediaStore \cup files : e.by # r

\* what an encoder is asked for: Bitmap.compress ignores the quality for PNG
EncoderSetting(format, quality) ==
    [format |-> format, quality |-> IF format = "png" THEN 100 ELSE quality]

\* C22: in both persisting modes the bytes persisted are the encoded bytes
\* whose base64 form is in the same result: the persisted image is encoded
\* in the same format and with the same requested quality as the payload.
PersistedBytesAreReturnedBytes ==
    \A r \in Reqs :
        req[r].code = "resolved" =>
            /\ req[r].kind = "saveScreenshotToPath" =>
                  \E f \in files : f.by = r /\ f.bytes = req[r].result.base64
            /\ req[r].kind = "saveScreenshotToLibrary" =>
                  \E e \in mediaStore :
                      /\ e.by = r /\ ~e.pending
                      /\ EncoderSetting(e.format, e.quality)
                            = EncoderSetting(req[r].result.base64.format,
                                             req[r].result.base64.quality)

\* C14: a resolved request that fell back to a placeholder and carries no
\* resize constraint reports the video size read from the player, or
\* 1920 x 1080 when that size is unknown, and no other size.
PlaceholderSizeFollowsVideo ==
    \A r \in Reqs :
        req[r].kind \in CaptureKinds /\ req[r].code = "resolved"
            /\ req[r].bitmap.kind = "placeholder"
            /\ req[r].opts.maxWidth = 0 /\ req[r].opts.maxHeight = 0
        => LET size == req[r].info.videoSize
           IN  IF size = UnknownSize
                 THEN req[r].result.width = 1920 /\ req[r].result.height = 1080
                 ELSE req[r].result.width = size.w /\ req[r].result.height = size.h

\* a capture resolved with a placeholder of the size of the video, after
\* the strategies failed on a player that presents its item
PlaceholderSizeWitness ==
    \E r \in Reqs :
        /\ req[r].kind = "captureScreenshot" /\ req[r].code = "resolved"
        /\ req[r].fail = "chain" /\ req[r].bitmap.kind = "placeholder"
        /\ req[r].opts.maxWidth = 0 /\ req[r].opts.maxHeight = 0
        /\ req[r].result.width = VideoWidth /\ req[r].result.height = VideoHeight

\* every Android request that has finished has settled its promise once,
\* and none has settled it more than once
AndroidSettlesOnce ==
    \A r \in Reqs :
        /\ req[r].settled <= 1
        /\ req[r].pc = "done" <=> req[r].settled = 1

\* ------------------------------------------- requests one after another

SaveKinds == {"saveScreenshotToLibrary", "saveScreenshotToPath"}

\* the keys of the map captureFrameFromPlayer builds: base64, width and
\* height always, timestamp when it was asked for, uri and size as the
\* output mode puts them
ResultKeys(result) ==
    {"base64", "width", "height"}
        \cup (IF result.timestamp THEN {"timestamp"} ELSE {})
        \cup (IF result.uri # "none" THEN {"uri"} ELSE {})
        \cup (IF result.size THEN {"size"} ELSE {})

\* what the caller of a finished request has in hand
Settlement(q) ==
    [kind |-> q.kind, error |-> q.error, code |-> q.code, source |-> q.bitmap.kind,
     keys |-> IF q.code = "resolved" THEN ResultKeys(q.result) ELSE {}]

\* the promise of a request is settled and the bridge makes its next call
NextRequest(r) ==
    /\ req[r].pc = "done"
    /\ Cardinality(settlements) < MaxSettled
    /\ extractions < MaxExtractions
    /\ settlements' = settlements \cup {Settlement(req[r])}
    /\ req' = [req EXCEPT ![r] = IdleRequest]
    /\ UNCHANGED <<regVars, caller, chainVars, poolVars, ext, extractions>>
    /\ UNCHANGED iosVars
    /\ UNCHANGED <<resizeCall, lister, waitReq>>
    /\ UNCHANGED extraVars
    /\ UNCHANGED lateVars
    /\ UNCHANGED <<exoPlayer, mediaStore, files, destroyed>>

InitRequests == InitAux /\ InitRegistry /\ InitCallers /\ InitChainIdle /\ InitPool /\ InitAndroid

NextRequests ==
    \/ onInstanceCreated(1, 1)
    \/ HostDrivesPlayer(1)
    \/ \E r \in Reqs, k \in CaptureKinds, o \in OptionSets : Launch(r, k, 1, o)
    \/ \E r \in Reqs : Lookup(r)
    \/ \E r \in Reqs : ReadTimestamp(r)
    \/ \E r \in Reqs : ReadVideoInfo(r)
    \/ \E r \in Reqs : Acquire(r)
    \/ \E r \in Reqs : ConfigureAndExtract(r)
    \/ \E r \in Reqs : ReleaseReadSize(r)
    \/ \E r \in Reqs : ReleaseAct(r)
    \/ \E r \in Reqs : AfterExtract(r)
    \/ \E r \in Reqs : PlaceholderInfo(r)
    \/ \E r \in Reqs : PlaceholderDraw(r)
    \/ \E r \in Reqs : Process(r)
    \/ \E r \in Reqs : Dispatch(r)
    \/ \E r \in Reqs : Settle(r)
    \/ \E r \in Reqs : NextRequest(r)

SpecRequests == InitRequests /\ [][NextRequests]_vars

\* C11: a saveScreenshotToLibrary whose media store write ran out of its
\* 10 s is rejected, settled exactly once and not resolved, and its error
\* code is the code of no other failed save.
TimeoutRejectedDistinctly ==
    \A r \in Reqs :
        req[r].pc = "done" /\ req[r].error = "TimeoutCancellationException" =>
            /\ req[r].settled = 1
            /\ req[r].code # "resolved"
            /\ \A s \in settlements :
                  s.kind \in SaveKinds /\ s.code # "resolved"
                      /\ s.error # "TimeoutCancellationException"
                  => s.code # req[r].code

\* C13: a result built from a placeholder carries a tag, a key of the result
\* map, that no result built from an extracted frame carries.
PlaceholderResultTagged ==
    \A r \in Reqs :
        req[r].kind \in CaptureKinds /\ req[r].code = "resolved"
            /\ req[r].bitmap.kind = "placeholder"
        => \E tag \in ResultKeys(req[r].result) :
              \A s \in settlements :
                  s.code = "resolved" /\ s.source = "frame" => tag \notin s.keys

\* ------------------------------------------------- iOS request flow
\* ios/VideoScreenshotPlugin.swift

\* reject(code, ...): the request has nothing more scheduled
IosRejected(q, code) ==
    [q EXCEPT !.pc = "done", !.code = code, !.settled = @ + 1]

\* resolve(value)
IosResolved(q) ==
    [q EXCEPT !.pc = "done", !.code = "resolved", !.settled = @ + 1]

\* a closure that keeps the plugin alive while it is pending: the
\* requestAuthorization callback captures the unwrapped self
HoldsPlugin(q) == q.pc = "authorizing"

\* onInstanceCreated: players[id] = player
IosOnInstanceCreated(id, p) ==
    /\ pluginAlive
    /\ players' = [players EXCEPT ![id] = p]
    /\ UNCHANGED <<avPlayer, pluginAlive, iosReq>>
    /\ UNCHANGED <<regVars, caller, chainVars, poolVars, ext, extractions, androidVars>>
    /\ UNCHANGED auxVars
    /\ UNCHANGED extraVars
    /\ UNCHANGED lateVars

\* onInstanceRemoved: players.removeValue(forKey: id)
IosOnInstanceRemoved(id, p) ==
    /\ pluginAlive
    /\ players' = [players EXCEPT ![id] = NoPlayer]
    /\ UNCHANGED <<avPlayer, pluginAlive, iosReq>>
    /\ UNCHANGED <<regVars, caller, chainVars, poolVars, ext, extractions, androidVars>>
    /\ UNCHANGED auxVars
    /\ UNCHANGED extraVars
    /\ UNCHANGED lateVars

\* the host gives a player a current item with a video track, or drops it
IosHostDrivesPlayer(h) ==
    /\ avPlayer' = [avPlayer EXCEPT ![h] = IF @ = "empty" THEN "ready" ELSE "empty"]
    /\ UNCHANGED <<players, pluginAlive, iosReq>>
    /\ UNCHANGED <<regVars, caller, chainVars, poolVars, ext, extractions, androidVars>>
    /\ UNCHANGED auxVars
    /\ UNCHANGED extraVars
    /\ UNCHANGED lateVars

\* the bridge drops the module and no pending closure holds it: deinit
IosDeinit ==
    /\ pluginAlive
    /\ \A r \in Reqs : ~HoldsPlugin(iosReq[r])
    /\ pluginAlive' = FALSE
    /\ UNCHANGED <<players, avPlayer, iosReq>>
    /\ UNCHANGED <<regVars, caller, chainVars, poolVars, ext, extractions, androidVars>>
    /\ UNCHANGED auxVars
    /\ UNCHANGED extraVars
    /\ UNCHANGED lateVars

\* a request method is called: DispatchQueue.main.async { [weak self] ... }
IosCall(r, kind, id) ==
    /\ pluginAlive
    /\ iosReq[r].pc = "idle"
    /\ iosReq[r].settled = 0
    /\ iosReq' = [iosReq EXCEPT ![r] = [IdleIosRequest EXCEPT !.pc = "queued", !.kind = kind,
                                                              !.id = id, !.queue = "main"]]
    /\ UNCHANGED <<players, avPlayer, pluginAlive>>
    /\ UNCHANGED <<regVars, caller, chainVars, poolVars, ext, extractions, androidVars>>
    /\ UNCHANGED auxVars
    /\ UNCHANGED extraVars
    /\ UNCHANGED lateVars

\* captureFrameFromPlayer up to generateCGImagesAsynchronously, on the queue
\* of its caller: the video track guard, player.currentTime()
IosStartCapture(q) ==
    LET read == [q EXCEPT !.fx = @ \cup {<<"tracks", q.queue>>}]
    IN  IF avPlayer[q.player] = "empty"
          THEN IosRejected(read, "NO_VIDEO_TRACK")
          ELSE [read EXCEPT !.pc = "generating",
                            !.fx = @ \cup {<<"currentTime", q.queue>>}]

\* the block a request method put on the main queue
IosMainBlock(r) ==
    /\ iosReq[r].pc = "queued"
    /\ LET q == iosReq[r]
           p == players[q.id]
           found == [q EXCEPT !.player = p, !.fx = @ \cup {<<"currentItem", q.queue>>}]
       IN  iosReq' = [iosReq EXCEPT ![r] =
              IF ~pluginAlive THEN IosRejected(q, "PLUGIN_ERROR")
              ELSE IF p = NoPlayer
                THEN IF q.kind = "isScreenshotSupported"
                       THEN [IosResolved(q) EXCEPT !.value = "false"]
                     ELSE IosRejected(q, "PLAYER_NOT_FOUND")
              ELSE IF q.kind = "isScreenshotSupported"
                THEN [IosResolved(found) EXCEPT
                         !.value = IF avPlayer[p] = "empty" THEN "false" ELSE "true"]
              ELSE IF q.kind = "getVideoDimensions"
                THEN IF avPlayer[p] = "empty" THEN IosRejected(found, "NO_VIDEO_TRACK")
                     ELSE IosResolved(found)
              ELSE IF avPlayer[p] = "empty" THEN IosRejected(found, "NO_CURRENT_ITEM")
              ELSE IF q.kind = "saveScreenshotToLibrary"
                THEN [found EXCEPT !.pc = "authorizing"]
              ELSE IosStartCapture(found)]
    /\ UNCHANGED <<players, avPlayer, pluginAlive>>
    /\ UNCHANGED <<regVars, caller, chainVars, poolVars, ext, extractions, androidVars>>
    /\ UNCHANGED auxVars
    /\ UNCHANGED extraVars
    /\ UNCHANGED lateVars

\* the handler of PHPhotoLibrary.requestAuthorization, on a queue of the
\* Photos framework
IosAuthorization(r) ==
    /\ iosReq[r].pc = "authorizing"
    /\ \E authorized \in BOOLEAN :
          LET q == [iosReq[r] EXCEPT !.queue = "photos",
                                     !.fx = @ \cup {<<"authorizationCheck", "photos">>}]
          IN  iosReq' = [iosReq EXCEPT ![r] =
                 IF authorized THEN IosStartCapture(q)
                 ELSE IosRejected(q, "PERMISSION_DENIED")]
    /\ UNCHANGED <<players, avPlayer, pluginAlive>>
    /\ UNCHANGED <<regVars, caller, chainVars, poolVars, ext, extractions, androidVars>>
    /\ UNCHANGED auxVars
    /\ UNCHANGED extraVars
    /\ UNCHANGED lateVars

\* the completion handler of generateCGImagesAsynchronously, with a weak
\* self: error, no image, an encoder that returns nil, or the result, which
\* is resolved, or handed to "self?.saveImageToPhotoLibrary" or
\* "self?.saveImageToPath"
IosFrameGenerated(r) ==
    /\ iosReq[r].pc = "generating"
    /\ \E outcome \in {"error", "noImage", "encodeNil", "image"} :
          LET q == [iosReq[r] EXCEPT !.queue = "generator"]
          IN  iosReq' = [iosReq EXCEPT ![r] =
                 CASE outcome \in {"error", "noImage"} -> IosRejected(q, "CAPTURE_FAILED")
                   [] outcome = "encodeNil" -> IosRejected(q, "ENCODE_FAILED")
                   [] OTHER ->
                        IF q.kind = "captureScreenshot" THEN IosResolved(q)
                        ELSE IF ~pluginAlive THEN [q EXCEPT !.pc = "done"]
                        ELSE IF q.kind = "saveScreenshotToLibrary"
                          THEN [q EXCEPT !.pc = "saving",
                                         !.fx = @ \cup {<<"photoLibraryWrite", "generator">>}]
                        ELSE [q EXCEPT !.pc = "writing"]]
    /\ UNCHANGED <<players, avPlayer, pluginAlive>>
    /\ UNCHANGED <<regVars, caller, chainVars, poolVars, ext, extractions, androidVars>>
    /\ UNCHANGED auxVars
    /\ UNCHANGED extraVars
    /\ UNCHANGED lateVars

\* saveImageToPath: createDirectory, data.write, resolve, or the catch
IosWriteFile(r) ==
    /\ iosReq[r].pc = "writing"
    /\ \E written \in BOOLEAN :
          LET q == [iosReq[r] EXCEPT !.fx = @ \cup {<<"fileWrite", "generator">>}]
          IN  iosReq' = [iosReq EXCEPT ![r] =
                 IF written THEN IosResolved(q) ELSE IosRejected(q, "SAVE_FAILED")]
    /\ UNCHANGED <<players, avPlayer, pluginAlive>>
    /\ UNCHANGED <<regVars, caller, chainVars, poolVars, ext, extractions, androidVars>>
    /\ UNCHANGED auxVars
    /\ UNCHANGED extraVars
    /\ UNCHANGED lateVars

\* the completion handler of performChanges
IosLibrarySaved(r) ==
    /\ iosReq[r].pc = "saving"
    /\ \E success \in BOOLEAN :
          iosReq' = [iosReq EXCEPT ![r] =
             IF success THEN IosResolved(@) ELSE IosRejected(@, "SAVE_FAILED")]
    /\ UNCHANGED <<players, avPlayer, pluginAlive>>
    /\ UNCHANGED <<regVars, caller, chainVars, poolVars, ext, extractions, androidVars>>
    /\ UNCHANGED auxVars
    /\ UNCHANGED extraVars
    /\ UNCHANGED lateVars

InitIosSpec == InitAux /\ InitRegistry /\ InitCallers /\ InitChainIdle /\ InitPool /\ InitAndroidIdle

NextIos ==
    \/ \E id \in Ids, p \in Handles : IosOnInstanceCreated(id, p)
    \/ \E id \in Ids, p \in Handles : IosOnInstanceRemoved(id, p)
    \/ \E h \in Handles : IosHostDrivesPlayer(h)
    \/ IosDeinit
    \/ \E r \in Reqs, k \in Kinds, id \in Ids : IosCall(r, k, id)
    \/ \E r \in Reqs : IosMainBlock(r)
    \/ \E r \in Reqs : IosAuthorization(r)
    \/ \E r \in Reqs : IosFrameGenerated(r)
    \/ \E r \in Reqs : IosWriteFile(r)
    \/ \E r \in Reqs : IosLibrarySaved(r)

SpecIos == InitIosSpec /\ [][NextIos]_vars

\* C9: every request, once started and run to its end, has settled its
\* promise exactly once, on both platforms, also when the player is
\* unregistered or the plugin instance goes away while it is in flight.
RequestSettlesExactlyOnce ==
    \A r \in Reqs :
        /\ req[r].settled <= 1 /\ iosReq[r].settled <= 1
        /\ req[r].pc = "done" => req[r].settled = 1
        /\ iosReq[r].pc = "done" => iosReq[r].settled = 1


\* C26: in the iOS plugin a capture request on a registered player never
\* fails because frame generation failed or because the player has no
\* current media item: it resolves with a placeholder result instead of
\* rejecting.
IosCaptureFallsBackToPlaceholder ==
    \A r \in Reqs :
        /\ iosReq[r].kind \in CaptureKinds
        /\ iosReq[r].pc = "done"
        /\ iosReq[r].player # NoPlayer
        => iosReq[r].code \notin {"NO_CURRENT_ITEM", "CAPTURE_FAILED"}

\* C28: in the iOS plugin player state (currentItem, currentTime, the tracks
\* of the item) is read only on the main queue, for every operation,
\* including the capture that saveScreenshotToLibrary starts from the
\* photo-library authorization callback.
IosPlayerReadsOnMainQueue ==
    \A r \in Reqs :
        \A e \in iosReq[r].fx :
            e[1] \in {"currentItem", "currentTime", "tracks"} => e[2] = "main"

\* C23: isScreenshotSupported never fails, for any id and any player or
\* plugin state: it always resolves with a boolean, and with false when the
\* id is not registered.
SupportCheckNeverFails ==
    \A r \in Reqs :
        /\ req[r].kind = "isScreenshotSupported" /\ req[r].pc = "done" =>
              /\ req[r].code = "resolved"
              /\ req[r].value \in {"true", "false"}
              /\ req[r].registered = "no" => req[r].value = "false"
        /\ iosReq[r].kind = "isScreenshotSupported" /\ iosReq[r].pc = "done" =>
              /\ iosReq[r].code = "resolved"
              /\ iosReq[r].value \in {"true", "false"}
              /\ iosReq[r].player = NoPlayer => iosReq[r].value = "false"

\* ------------------------------------------------------------- resizing

FracLeq(a, b) == a.n * b.d <= b.n * a.d

FracLt(a, b) == a.n * b.d < b.n * a.d

FracEq(a, b) == a.n * b.d = b.n * a.d

FracMul(a, b) == Frac(a.n * b.n, a.d * b.d)

\* a / b for b # 0
FracDiv(a, b) == Frac(a.n * b.d, a.d * b.n)

\* options.getInt(key) if the key is there, else 0; "as? Int ?? 0"
OptionInt(v) == IF v = Absent THEN 0 ELSE v

\* resizeImageIfNeeded(_:maxWidth:maxHeight:) of the iOS plugin with cached
\* generators: fit the width, then fit the height
resizeImageIfNeeded(size, maxWidth, maxHeight) ==
    IF ~(maxWidth > 0 \/ maxHeight > 0) THEN size
    ELSE LET fitW == IF maxWidth > 0 /\ FracLt(Whole(maxWidth), size.w)
                       THEN [w |-> Whole(maxWidth),
                             h |-> FracMul(size.h, FracDiv(Whole(maxWidth), size.w))]
                       ELSE size
             fitH == IF maxHeight > 0 /\ FracLt(Whole(maxHeight), fitW.h)
                       THEN [w |-> FracMul(fitW.w, FracDiv(Whole(maxHeight), fitW.h)),
                             h |-> Whole(maxHeight)]
                       ELSE fitW
         IN  fitH

\* min(a, b, 1.0)
FracMin3(a, b) ==
    LET m == IF FracLeq(a, b) THEN a ELSE b
    IN  IF FracLeq(m, Whole(1)) THEN m ELSE Whole(1)

\* resizeImageIfNeeded(image:config:) of the iOS plugin with ScreenshotConfig:
\* without both maxWidth and maxHeight the image is returned as it is; a
\* ratio of 0 asks for a context of size 0, which yields no image ("nil",
\* the image is returned as it is) or stops the process ("abort")
resizeImageIfNeededConfig(size, maxWidth, maxHeight, context) ==
    IF maxWidth = Absent \/ maxHeight = Absent THEN size
    ELSE LET ratio == FracMin3(FracDiv(Whole(maxWidth), size.w),
                               FracDiv(Whole(maxHeight), size.h))
         IN  IF FracLt(ratio, Whole(1))
               THEN IF ratio.n = 0
                      THEN IF context = "nil" THEN size ELSE NoSize
                      ELSE [w |-> FracMul(size.w, ratio), h |-> FracMul(size.h, ratio)]
               ELSE size

\* the frames and the constraints a resize is called with
ResizeInputs ==
    [done : {FALSE},
     bitmap : [kind : {"frame"}, w : 1..MaxSide, h : 1..MaxSide, scaled : {FALSE}],
     maxWidth : {Absent} \cup (0..MaxLimit),
     maxHeight : {Absent} \cup (0..MaxLimit),
     out : {NoBitmap}, outSequential : {NoSize}, outConfig : {NoSize}]

InitResize ==
    /\ settlements = {}
    /\ lister = IdleLister
    /\ waitReq = IdleWait
    /\ pathSave = IdleSave
    /\ facade = IdleFacade
    /\ dictAccess = NoAccess
    /\ InitLate
    /\ resizeCall \in ResizeInputs

\* the resize step of each implementation, on the same frame and options
RunResize ==
    /\ ~resizeCall.done
    /\ \E context \in {"nil", "abort"} :
          LET b == resizeCall.bitmap
              size == [w |-> Whole(b.w), h |-> Whole(b.h)]
          IN  resizeCall' =
                [resizeCall EXCEPT
                    !.done = TRUE,
                    !.out = resizeBitmapMaintainingAspectRatio(
                                b, OptionInt(resizeCall.maxWidth), OptionInt(resizeCall.maxHeight)),
                    !.outSequential = resizeImageIfNeeded(
                                size, OptionInt(resizeCall.maxWidth), OptionInt(resizeCall.maxHeight)),
                    !.outConfig = resizeImageIfNeededConfig(
                                size, resizeCall.maxWidth, resizeCall.maxHeight, context)]
    /\ UNCHANGED <<regVars, caller, chainVars, poolVars, ext, extractions>>
    /\ UNCHANGED iosVars
    /\ UNCHANGED androidVars
    /\ UNCHANGED <<settlements, lister, waitReq>>
    /\ UNCHANGED extraVars
    /\ UNCHANGED lateVars

InitResizeSpec ==
    InitResize /\ InitRegistry /\ InitCallers /\ InitChainIdle /\ InitPool /\ InitAndroidIdle

NextResize == RunResize

SpecResize == InitResizeSpec /\ [][NextResize]_vars

\* the constraints that bind: maxWidth / width and maxHeight / height, for
\* each of the two that is positive
BindingRatios ==
    (IF OptionInt(resizeCall.maxWidth) > 0
       THEN {Frac(resizeCall.maxWidth, resizeCall.bitmap.w)} ELSE {})
    \cup (IF OptionInt(resizeCall.maxHeight) > 0
            THEN {Frac(resizeCall.maxHeight, resizeCall.bitmap.h)} ELSE {})

\* the smallest of them
BindingScale ==
    CHOOSE f \in BindingRatios : \A g \in BindingRatios : FracLeq(f, g)

Abs(x) == IF x < 0 THEN -x ELSE x

\* C15: a resize whose scale is 1 or more returns the frame it was given,
\* and no resize returns a frame wider or taller than the one it was given.
ResizeNeverUpscales ==
    resizeCall.done =>
        /\ (\A f \in BindingRatios : f.n >= f.d) => resizeCall.out = resizeCall.bitmap
        /\ resizeCall.out.w <= resizeCall.bitmap.w
        /\ resizeCall.out.h <= resizeCall.bitmap.h

\* a resize called with both limits above the sides of the frame
ResizeNeverUpscalesWitness ==
    /\ resizeCall.done
    /\ resizeCall.maxWidth > resizeCall.bitmap.w
    /\ resizeCall.maxHeight > resizeCall.bitmap.h
    /\ resizeCall.out = resizeCall.bitmap

OneAxisConstraintEnforced ==
    resizeCall.done =>
        LET mw == resizeCall.maxWidth
            mh == resizeCall.maxHeight
        IN  /\ mw > 0 /\ mh \in {Absent, 0} =>
                  /\ resizeCall.out.w <= mw
                  /\ FracLeq(resizeCall.outSequential.w, Whole(mw))
                  /\ FracLeq(resizeCall.outConfig.w, Whole(mw))
            /\ mh > 0 /\ mw \in {Absent, 0} =>
                  /\ resizeCall.out.h <= mh
                  /\ FracLeq(resizeCall.outSequential.h, Whole(mh))
                  /\ FracLeq(resizeCall.outConfig.h, Whole(mh))

\* ------------------------------------- iOS: captureScreenshotWhenReady
\* the iOS plugin with ScreenshotConfig and registerPlayer

\* "let maxAttempts = 20": 10 seconds with 0.5 s intervals
maxAttempts == 20

\* the maxWidth and maxHeight a caller passes
WaitOptions == {<<Absent, Absent>>, <<SmallWidth, SmallWidth>>, <<SmallWidth, Absent>>}

\* the 1x1 transparent PNG every placeholder result carries as base64
PlaceholderPng == [w |-> Whole(1), h |-> Whole(1)]

\* Int(CGFloat): truncation
IntOf(f) == f.n \div f.d

\* resolve(result) with a placeholder: the fixed PNG and the fixed numbers
WaitPlaceholder(q, width, height) ==
    [q EXCEPT !.pc = "done", !.code = "resolved", !.settled = @ + 1, !.source = "placeholder",
              !.payload = PlaceholderPng, !.width = width, !.height = height]

WaitRejected(q, code) ==
    [q EXCEPT !.pc = "done", !.code = code, !.settled = @ + 1]

\* registerPlayer: players[playerId] = AVPlayer(), a player with no item
WaitRegisterPlayer(id, h) ==
    /\ pluginAlive
    /\ \A i \in Ids : players[i] # h
    /\ waitReq.player # h
    /\ players' = [players EXCEPT ![id] = h]
    /\ avPlayer' = [avPlayer EXCEPT ![h] = "empty"]
    /\ UNCHANGED <<pluginAlive, iosReq>>
    /\ UNCHANGED <<regVars, caller, chainVars, poolVars, ext, extractions, androidVars>>
    /\ UNCHANGED auxVars
    /\ UNCHANGED extraVars
    /\ UNCHANGED lateVars

\* registerPlayer, on a global queue: player.replaceCurrentItem(with:)
WaitItemLoaded(h) ==
    /\ avPlayer[h] = "empty"
    /\ (\E i \in Ids : players[i] = h) \/ waitReq.player = h
    /\ avPlayer' = [avPlayer EXCEPT ![h] = "ready"]
    /\ UNCHANGED <<players, pluginAlive, iosReq>>
    /\ UNCHANGED <<regVars, caller, chainVars, poolVars, ext, extractions, androidVars>>
    /\ UNCHANGED auxVars
    /\ UNCHANGED extraVars
    /\ UNCHANGED lateVars

\* invalidate: players.removeAll()
WaitInvalidate ==
    /\ pluginAlive
    /\ players' = [i \in Ids |-> NoPlayer]
    /\ UNCHANGED <<avPlayer, pluginAlive, iosReq>>
    /\ UNCHANGED <<regVars, caller, chainVars, poolVars, ext, extractions, androidVars>>
    /\ UNCHANGED auxVars
    /\ UNCHANGED extraVars
    /\ UNCHANGED lateVars

\* deinit, once no closure holds the plugin: checkAndRetry captures the
\* unwrapped self
WaitDeinit ==
    /\ pluginAlive
    /\ waitReq.pc # "waiting"
    /\ pluginAlive' = FALSE
    /\ players' = [i \in Ids |-> NoPlayer]
    /\ UNCHANGED <<avPlayer, iosReq>>
    /\ UNCHANGED <<regVars, caller, chainVars, poolVars, ext, extractions, androidVars>>
    /\ UNCHANGED auxVars
    /\ UNCHANGED extraVars
    /\ UNCHANGED lateVars

\* captureScreenshotWhenReady is called: DispatchQueue.main.async
WaitCall(id, o) ==
    /\ pluginAlive
    /\ waitReq.pc = "idle"
    /\ waitReq' = [IdleWait EXCEPT !.pc = "queued", !.id = id,
                                   !.maxWidth = o[1], !.maxHeight = o[2]]
    /\ UNCHANGED <<settlements, resizeCall, lister>>
    /\ UNCHANGED extraVars
    /\ UNCHANGED lateVars
    /\ UNCHANGED <<regVars, caller, chainVars, poolVars, ext, extractions, androidVars>>
    /\ UNCHANGED iosVars

\* the block on the main queue: the guards, and with no current item the
\* first checkAndRetry, which finds what the guard found
WaitMainBlock ==
    /\ waitReq.pc = "queued"
    /\ LET p == players[waitReq.id]
           found == [waitReq EXCEPT !.player = p]
       IN  waitReq' =
              IF ~pluginAlive THEN WaitRejected(waitReq, "PLUGIN_ERROR")
              ELSE IF p = NoPlayer THEN WaitRejected(waitReq, "PLAYER_NOT_FOUND")
              ELSE IF avPlayer[p] = "empty"
                THEN [found EXCEPT !.pc = "waiting", !.attempts = 1, !.misses = 1]
              ELSE [found EXCEPT !.pc = "capture"]
    /\ UNCHANGED <<settlements, resizeCall, lister>>
    /\ UNCHANGED extraVars
    /\ UNCHANGED lateVars
    /\ UNCHANGED <<regVars, caller, chainVars, poolVars, ext, extractions, androidVars>>
    /\ UNCHANGED iosVars

\* a waitTime that counts the delays, not the attempts
elapsedWaitTime(attempts) == (attempts - 1) * 500

\* "waitTime": Double(attempts) * 0.5 seconds, in milliseconds
waitTimeOf(attempts) == attempts * 500

\* checkAndRetry, 0.5 s after the last one; history: the time since the
\* first one and the number of them that found no item
checkAndRetry ==
    /\ waitReq.pc = "waiting"
    /\ LET q == [waitReq EXCEPT !.attempts = @ + 1, !.elapsed = @ + 500]
           missed == [q EXCEPT !.misses = @ + 1]
       IN  waitReq' =
              IF avPlayer[q.player] # "empty" THEN [q EXCEPT !.pc = "capture"]
              ELSE IF q.attempts < maxAttempts THEN missed
              ELSE [WaitPlaceholder(missed, 640, 480) EXCEPT
                       !.waitTime = waitTimeOf(q.attempts)]
    /\ UNCHANGED <<settlements, resizeCall, lister>>
    /\ UNCHANGED extraVars
    /\ UNCHANGED lateVars
    /\ UNCHANGED <<regVars, caller, chainVars, poolVars, ext, extractions, androidVars>>
    /\ UNCHANGED iosVars

\* captureFrameFromPlayer, the block on screenshotQueue: the item that is not
\* ready to play, the item without a video track
WaitCapture ==
    /\ waitReq.pc = "capture"
    /\ \E status \in {"readyToPlay", "unknown"}, track \in BOOLEAN :
          waitReq' =
              IF ~pluginAlive THEN WaitRejected(waitReq, "PLUGIN_ERROR")
              ELSE IF status # "readyToPlay" THEN WaitPlaceholder(waitReq, 100, 100)
              ELSE IF ~track THEN WaitPlaceholder(waitReq, 320, 240)
              ELSE [waitReq EXCEPT !.pc = "generating"]
    /\ UNCHANGED <<settlements, resizeCall, lister>>
    /\ UNCHANGED extraVars
    /\ UNCHANGED lateVars
    /\ UNCHANGED <<regVars, caller, chainVars, poolVars, ext, extractions, androidVars>>
    /\ UNCHANGED iosVars

\* the completion handler of generateCGImagesAsynchronously and
\* processScreenshotImage with .base64Only
WaitGenerated ==
    /\ waitReq.pc = "generating"
    /\ \E outcome \in {"error", "noImage", "conversionNil", "image"} :
          LET image == [w |-> Whole(VideoWidth), h |-> Whole(VideoHeight)]
              processedImage == resizeImageIfNeededConfig(image, waitReq.maxWidth,
                                                          waitReq.maxHeight, "nil")
          IN  waitReq' =
                 IF ~pluginAlive THEN WaitRejected(waitReq, "PLUGIN_ERROR")
                 ELSE CASE outcome = "error" -> WaitPlaceholder(waitReq, 480, 360)
                        [] outcome = "noImage" -> WaitRejected(waitReq, "NO_IMAGE")
                        [] outcome = "conversionNil" -> WaitRejected(waitReq, "CONVERSION_ERROR")
                        [] OTHER ->
                             [waitReq EXCEPT !.pc = "done", !.code = "resolved",
                                             !.settled = @ + 1, !.source = "frame",
                                             !.payload = processedImage,
                                             !.width = IntOf(processedImage.w),
                                             !.height = IntOf(processedImage.h)]
    /\ UNCHANGED <<settlements, resizeCall, lister>>
    /\ UNCHANGED extraVars
    /\ UNCHANGED lateVars
    /\ UNCHANGED <<regVars, caller, chainVars, poolVars, ext, extractions, androidVars>>
    /\ UNCHANGED iosVars

InitWait == InitAux /\ InitRegistry /\ InitCallers /\ InitChainIdle /\ InitPool /\ InitAndroidIdle

NextWait ==
    \/ \E id \in Ids, h \in Handles : WaitRegisterPlayer(id, h)
    \/ \E h \in Handles : WaitItemLoaded(h)
    \/ WaitInvalidate
    \/ WaitDeinit
    \/ \E id \in Ids, o \in WaitOptions : WaitCall(id, o)
    \/ WaitMainBlock
    \/ checkAndRetry
    \/ WaitCapture
    \/ WaitGenerated

SpecWait == InitWait /\ [][NextWait]_vars

\* C18: in every successful result, width and height are the dimensions of
\* the image encoded in the payload (the image after the resize), not the
\* dimensions of the captured frame when a resize was applied and not a fixed
\* value unrelated to the payload.
ResultSizeIsPayloadSize ==
    /\ \A r \in Reqs :
          req[r].kind \in CaptureKinds /\ req[r].code = "resolved" =>
              /\ req[r].result.width = req[r].result.base64.w
              /\ req[r].result.height = req[r].result.base64.h
    /\ waitReq.code = "resolved" =>
          /\ FracEq(Whole(waitReq.width), waitReq.payload.w)
          /\ FracEq(Whole(waitReq.height), waitReq.payload.h)

\* C29: captureScreenshotWhenReady on a registered player without a current
\* item polls for an item every 0.5 s, at most 20 times; it starts the
\* capture at the first poll that finds an item, and after 20 polls without
\* one it resolves a placeholder whose waitTime is 10 s; in every case the
\* polling stops and the promise settles exactly once.
WaitPollsThenSettlesOnce ==
    /\ [](/\ waitReq.attempts <= 20
          /\ waitReq.elapsed = IF waitReq.attempts = 0 THEN 0 ELSE 500 * (waitReq.attempts - 1)
          /\ waitReq.settled <= 1
          /\ waitReq.pc = "done" => waitReq.settled = 1
          /\ waitReq.pc = "waiting" => waitReq.misses = waitReq.attempts
          /\ waitReq.misses > 0 /\ waitReq.pc \in {"capture", "generating"}
                => waitReq.attempts = waitReq.misses + 1
          /\ waitReq.misses > 0 /\ waitReq.pc = "done" =>
                \/ waitReq.attempts = waitReq.misses + 1 /\ waitReq.waitTime = Absent
                \/ /\ waitReq.misses = 20 /\ waitReq.attempts = 20
                   /\ waitReq.code = "resolved" /\ waitReq.source = "placeholder"
                   /\ waitReq.waitTime = 10000)
    /\ [][waitReq.pc \in {"capture", "generating", "done"}
             => waitReq'.attempts = waitReq.attempts]_vars

\* the twentieth poll found no item and the placeholder was resolved
WaitTimedOutWitness ==
    /\ waitReq.pc = "done" /\ waitReq.settled = 1
    /\ waitReq.misses = 20 /\ waitReq.waitTime = 10000
    /\ waitReq.elapsed = 9500

\* C37: for every frame with width, height >= 1 and every maxWidth,
\* maxHeight >= 0 that are not both 0, the resized frame has width >= 1 and
\* height >= 1, so a resize constraint never makes a request fail.
ResizedFrameHasPixels ==
    /\ resizeCall.done
    /\ resizeCall.maxWidth >= 0 /\ resizeCall.maxHeight >= 0
    /\ resizeCall.maxWidth + resizeCall.maxHeight > 0
    => resizeCall.out.w >= 1 /\ resizeCall.out.h >= 1

\* ------------------------------------------------- saving to a path
\* saveScreenshotToPath from the encoded bytes on. Of the PathDepth
\* directories above the file the first "dirs" exist; "blocked" is a file
\* system that refuses to create a directory or a file under them.

\* the byte arrays an encoder returns
ByteArrays == UNION {[1..n -> {0, 1}] : n \in 0..MaxBytes}

\* what a path may hold before the call: nothing, or an older and longer file
OldFiles == {NoFile, <<1, 1, 1>>}

\* File.mkdir(): the last directory only, and only under an existing one
mkdir(dirs, blocked) ==
    IF blocked \/ dirs < PathDepth - 1 THEN dirs ELSE PathDepth

\* file.parentFile?.mkdirs(): every missing directory; false is returned,
\* and ignored, when one cannot be created
mkdirs(dirs, blocked) ==
    IF blocked THEN dirs ELSE PathDepth

\* FileManager.createDirectory(at:withIntermediateDirectories: true)
createDirectory(dirs, blocked) ==
    IF blocked THEN dirs ELSE PathDepth

\* a request has its encoded bytes and comes to the file
SaveCall(platform, parents, blocked, old, data) ==
    /\ pathSave.pc = "idle"
    /\ pathSave' = [IdleSave EXCEPT !.pc = "encoded", !.platform = platform,
                                    !.blocked = blocked, !.parents = parents, !.dirs = parents,
                                    !.onDisk = (old # NoFile /\ parents = PathDepth),
                                    !.file = IF parents = PathDepth THEN old ELSE NoFile,
                                    !.data = data]
    /\ UNCHANGED <<regVars, caller, chainVars, poolVars, ext, extractions, androidVars>>
    /\ UNCHANGED iosVars
    /\ UNCHANGED auxVars
    /\ UNCHANGED <<facade, dictAccess>>
    /\ UNCHANGED lateVars

\* Android, the SAVE_TO_PATH branch: saveImageDataToFile makes the
\* directories, FileOutputStream(file) creates or truncates the file or
\* throws, write; then uri and size = imageData.size; a throw is SAVE_FAILED
saveImageDataToFile ==
    /\ pathSave.pc = "encoded"
    /\ pathSave.platform = "android"
    /\ LET dirs == mkdirs(pathSave.dirs, pathSave.blocked)
       IN  pathSave' =
              IF dirs < PathDepth \/ pathSave.blocked
                THEN [pathSave EXCEPT !.pc = "done", !.dirs = dirs, !.code = "SAVE_FAILED"]
                ELSE [pathSave EXCEPT !.pc = "done", !.dirs = dirs, !.onDisk = TRUE,
                                      !.file = pathSave.data, !.uri = "path",
                                      !.size = Len(pathSave.data), !.code = "resolved"]
    /\ UNCHANGED <<regVars, caller, chainVars, poolVars, ext, extractions, androidVars>>
    /\ UNCHANGED iosVars
    /\ UNCHANGED auxVars
    /\ UNCHANGED <<facade, dictAccess>>
    /\ UNCHANGED lateVars

\* iOS saveImageToPath: createDirectory, data.write(to:), uri and
\* size = data.count, resolve; the catch rejects with SAVE_FAILED
saveImageToPath ==
    /\ pathSave.pc = "encoded"
    /\ pathSave.platform = "ios"
    /\ LET dirs == createDirectory(pathSave.dirs, pathSave.blocked)
       IN  pathSave' =
              IF dirs < PathDepth \/ pathSave.blocked
                THEN [pathSave EXCEPT !.pc = "done", !.dirs = dirs, !.code = "SAVE_FAILED"]
                ELSE [pathSave EXCEPT !.pc = "done", !.dirs = dirs, !.onDisk = TRUE,
                                      !.file = pathSave.data, !.uri = "path",
                                      !.size = Len(pathSave.data), !.code = "resolved"]
    /\ UNCHANGED <<regVars, caller, chainVars, poolVars, ext, extractions, androidVars>>
    /\ UNCHANGED iosVars
    /\ UNCHANGED auxVars
    /\ UNCHANGED <<facade, dictAccess>>
    /\ UNCHANGED lateVars

InitFiles == InitAux /\ InitRegistry /\ InitCallers /\ InitChainIdle /\ InitPool /\ InitAndroidIdle

NextFiles ==
    \/ \E platform \in {"android", "ios"}, parents \in 0..PathDepth, blocked \in BOOLEAN,
          old \in OldFiles, data \in ByteArrays :
            SaveCall(platform, parents, blocked, old, data)
    \/ saveImageDataToFile
    \/ saveImageToPath

SpecFiles == InitFiles /\ [][NextFiles]_vars

\* C21: saveScreenshotToPath to a path whose parent directories do not yet
\* exist creates them and succeeds, and in every successful result the
\* reported size is the byte length of the file written at that path.
PathSaveCreatesParents ==
    pathSave.pc = "done" =>
        /\ ~pathSave.blocked => pathSave.code = "resolved"
        /\ pathSave.code = "resolved" =>
              /\ pathSave.dirs = PathDepth
              /\ pathSave.onDisk
              /\ pathSave.size = Len(pathSave.file)

\* a save under no existing directory has resolved with the length of a
\* file that is not empty
PathSaveWitness ==
    /\ pathSave.pc = "done" /\ pathSave.code = "resolved"
    /\ pathSave.platform = "android"
    /\ pathSave.parents = 0 /\ pathSave.dirs = PathDepth
    /\ pathSave.size = MaxBytes /\ pathSave.file = pathSave.data

\* ------------------------------------------------------ the JS facade
\* src/index.tsx: exported functions over NativeModules.VideoScreenshotPlugin
\* ("functions"); src/index.ts: the class VideoScreenshotPlugin over the
\* native module ("class"). JS values are written as their literals.

OptionKeys == {"format", "quality", "maxWidth", "maxHeight", "includeTimestamp"}

\* the values a caller passes for a key of ScreenshotOptions
OptionValues ==
    [format |-> {"'png'", "'jpeg'"}, quality |-> {"0.5"}, maxWidth |-> {"800"},
     maxHeight |-> {"600"}, includeTimestamp |-> {"false"}]

\* the options objects a caller passes; {} also stands for an omitted argument
CallerOptions ==
    UNION {{o \in [S -> UNION {OptionValues[k] : k \in OptionKeys}] :
               \A k \in S : o[k] \in OptionValues[k]} : S \in SUBSET OptionKeys}

\* the literal every capturing function of index.tsx starts its config with
DefaultConfig == [format |-> "'jpeg'", quality |-> "0.9", includeTimestamp |-> "true"]

\* { ...a, ...b }
Spread(a, b) ==
    [k \in DOMAIN a \cup DOMAIN b |-> IF k \in DOMAIN b THEN b[k] ELSE a[k]]

FacadeMethods ==
    {"captureScreenshot", "captureScreenshotWhenReady", "saveScreenshotToLibrary",
     "saveScreenshotToPath"}

\* the text each method of the class puts in front of a caught error
ErrorPrefix(method) ==
    CASE method = "captureScreenshot" -> "Capture screenshot failed: "
      [] method = "captureScreenshotWhenReady" -> "Capture screenshot when ready failed: "
      [] method = "saveScreenshotToLibrary" -> "Save screenshot to library failed: "
      [] OTHER -> "Save screenshot to path failed: "

\* what the native promise settles with: a result, or an error object with
\* the code and the message of the native reject
NativeOutcomes ==
    {[kind |-> "resolved", code |-> "none", message |-> <<>>]}
        \cup {[kind |-> "rejected", code |-> c, message |-> <<"native message">>] :
                 c \in {"PLAYER_NOT_FOUND", "CAPTURE_FAILED", "SAVE_FAILED"}}

\* a facade method is called and calls the native method: the functions
\* with videoRef.videoId and the config, the class with its arguments
FacadeCall(layer, method, id, options) ==
    /\ facade.pc = "idle"
    /\ facade' = [IdleFacade EXCEPT
                     !.pc = "native", !.layer = layer, !.method = method, !.videoId = id,
                     !.options = options, !.nativeId = id,
                     !.nativeOptions = IF layer = "functions"
                                         THEN Spread(DefaultConfig, options)
                                         ELSE options]
    /\ UNCHANGED <<regVars, caller, chainVars, poolVars, ext, extractions, androidVars>>
    /\ UNCHANGED iosVars
    /\ UNCHANGED auxVars
    /\ UNCHANGED <<pathSave, dictAccess>>
    /\ UNCHANGED lateVars

\* the native promise settles: the functions return it as it is; the class
\* awaits it and in its catch throws new Error(`<prefix>${error}`)
FacadeSettles(native) ==
    /\ facade.pc = "native"
    /\ facade' = [facade EXCEPT
                     !.pc = "done", !.native = native,
                     !.outcome = IF native.kind = "rejected" /\ facade.layer = "class"
                                   THEN [kind |-> "rejected", code |-> "undefined",
                                         message |-> <<ErrorPrefix(facade.method), "Error: ">>
                                                        \o native.message]
                                   ELSE native]
    /\ UNCHANGED <<regVars, caller, chainVars, poolVars, ext, extractions, androidVars>>
    /\ UNCHANGED iosVars
    /\ UNCHANGED auxVars
    /\ UNCHANGED <<pathSave, dictAccess>>
    /\ UNCHANGED lateVars

InitFacade == InitAux /\ InitRegistry /\ InitCallers /\ InitChainIdle /\ InitPool /\ InitAndroidIdle

NextFacade ==
    \/ \E layer \in {"functions", "class"}, method \in FacadeMethods, id \in Ids,
          options \in CallerOptions : FacadeCall(layer, method, id, options)
    \/ \E native \in NativeOutcomes : FacadeSettles(native)

SpecFacade == InitFacade /\ [][NextFacade]_vars

\* C24: the facade's captureScreenshot, captureScreenshotWhenReady,
\* saveScreenshotToLibrary and saveScreenshotToPath call the native method
\* with the videoId of the videoRef and with the options {format: 'jpeg',
\* quality: 0.9, includeTimestamp: true} overridden by the caller's: every
\* key the caller supplies wins, every default the caller omits is present,
\* and maxWidth and maxHeight appear only if supplied.
NativeCallHasMergedOptions ==
    facade.pc # "idle" /\ facade.method \in FacadeMethods =>
        /\ facade.nativeId = facade.videoId
        /\ DOMAIN facade.nativeOptions
              = {"format", "quality", "includeTimestamp"} \cup DOMAIN facade.options
        /\ \A k \in DOMAIN facade.options : facade.nativeOptions[k] = facade.options[k]
        /\ "format" \notin DOMAIN facade.options => facade.nativeOptions["format"] = "'jpeg'"
        /\ "quality" \notin DOMAIN facade.options => facade.nativeOptions["quality"] = "0.9"
        /\ "includeTimestamp" \notin DOMAIN facade.options
              => facade.nativeOptions["includeTimestamp"] = "true"

\* C25: a rejection from the native module reaches the caller of the facade
\* as the same failure value, with its message and its error code, so that
\* the caller can branch on error.code; the facade does not replace or
\* swallow it.
NativeRejectionReachesCaller ==
    facade.pc = "done" /\ facade.native.kind = "rejected" =>
        /\ facade.outcome.kind = "rejected"
        /\ facade.outcome.code = facade.native.code
        /\ facade.outcome.message = facade.native.message

\* ------------------------------------ iOS: the players dictionary
\* ios/VideoScreenshotPlugin.swift: "private var players", written by the
\* lifecycle handlers on the thread that calls them and read by the blocks
\* the request methods put on the main queue

\* the main thread, and the thread react-native-video calls the handlers on
Threads == {"main", "video"}

\* an access that starts while others are under way overlaps each of them
Overlapped(inflight) == {[a EXCEPT !.raced = TRUE] : a \in inflight}

\* onInstanceCreated or onInstanceRemoved comes to its dictionary statement
DictWriteBegin(t, op, id, p) ==
    /\ \A a \in dictAccess.inflight : a.thread # t
    /\ dictAccess' = [dictAccess EXCEPT !.inflight =
          Overlapped(@) \cup {[thread |-> t, op |-> op, id |-> id, player |-> p,
                               raced |-> @ # {}]}]
    /\ UNCHANGED <<regVars, caller, chainVars, poolVars, ext, extractions, androidVars>>
    /\ UNCHANGED iosVars
    /\ UNCHANGED auxVars
    /\ UNCHANGED <<pathSave, facade>>
    /\ UNCHANGED lateVars

\* a block on the main queue comes to "self.players[videoId]"
DictReadBegin(id) ==
    /\ \A a \in dictAccess.inflight : a.thread # "main"
    /\ dictAccess' = [dictAccess EXCEPT !.inflight =
          Overlapped(@) \cup {[thread |-> "main", op |-> "read", id |-> id,
                               player |-> NoPlayer, raced |-> @ # {}]}]
    /\ UNCHANGED <<regVars, caller, chainVars, poolVars, ext, extractions, androidVars>>
    /\ UNCHANGED iosVars
    /\ UNCHANGED auxVars
    /\ UNCHANGED <<pathSave, facade>>
    /\ UNCHANGED lateVars

\* the statement is through: an access that overlapped a write has no
\* defined outcome, any dictionary or any value may come of it
DictEnd(t) ==
    \E a \in dictAccess.inflight :
        /\ a.thread = t
        /\ \E anyPlayers \in [Ids -> Handles \cup {NoPlayer}], anyPlayer \in Handles \cup {NoPlayer} :
              /\ players' = CASE a.op = "read" -> players
                              [] a.raced -> anyPlayers
                              [] a.op = "created" -> [players EXCEPT ![a.id] = a.player]
                              [] OTHER -> [players EXCEPT ![a.id] = NoPlayer]
              /\ dictAccess' = [inflight |-> dictAccess.inflight \ {a},
                                read |-> CASE a.op # "read" -> dictAccess.read
                                           [] a.raced -> [id |-> a.id, player |-> anyPlayer]
                                           [] OTHER -> [id |-> a.id, player |-> players[a.id]]]
        /\ UNCHANGED <<avPlayer, pluginAlive, iosReq>>
        /\ UNCHANGED <<regVars, caller, chainVars, poolVars, ext, extractions, androidVars>>
        /\ UNCHANGED auxVars
        /\ UNCHANGED <<pathSave, facade>>
        /\ UNCHANGED lateVars

InitDict == InitAux /\ InitRegistry /\ InitCallers /\ InitChainIdle /\ InitPool /\ InitAndroidIdle

NextDict ==
    \/ \E t \in Threads, op \in {"created", "removed"}, id \in Ids, p \in Handles :
          DictWriteBegin(t, op, id, p)
    \/ \E id \in Ids : DictReadBegin(id)
    \/ \E t \in Threads : DictEnd(t)

SpecDict == InitDict /\ [][NextDict]_vars

\* C27: in the iOS plugin every read and write of the players dictionary is
\* serialized: no lookup and no write runs while a write issued from another
\* thread is under way, whatever threads the lifecycle callbacks and the
\* requests arrive on.
DictionaryAccessSerialized ==
    \A a, b \in dictAccess.inflight :
        a # b => a.op = "read" /\ b.op = "read"

\* ---------------------------------------------- the timestamp of a result

\* playback goes on while the request is in flight
StampPlayerAdvances ==
    /\ stampReq.position < MaxPosition
    /\ stampReq' = [stampReq EXCEPT !.position = @ + 1]
    /\ UNCHANGED <<bitmaps, genCache, barrierReg>>
    /\ UNCHANGED <<regVars, caller, chainVars, poolVars, ext, extractions>>
    /\ UNCHANGED <<androidVars, iosVars, auxVars, extraVars>>

\* captureFrameFromPlayer is entered with the parsed options
StampCall(includeTimestamp) ==
    /\ stampReq.pc = "idle"
    /\ stampReq' = [stampReq EXCEPT !.pc = "timestamp", !.includeTimestamp = includeTimestamp]
    /\ UNCHANGED <<bitmaps, genCache, barrierReg>>
    /\ UNCHANGED <<regVars, caller, chainVars, poolVars, ext, extractions>>
    /\ UNCHANGED <<androidVars, iosVars, auxVars, extraVars>>

\* "player.currentPosition / 1000.0" on Dispatchers.Main, if requested
StampReadTimestamp ==
    /\ stampReq.pc = "timestamp"
    /\ stampReq' = IF stampReq.includeTimestamp
                     THEN [stampReq EXCEPT !.pc = "videoInfo", !.stamped = TRUE,
                                           !.timestamp = Frac(stampReq.position, 1000)]
                     ELSE [stampReq EXCEPT !.pc = "videoInfo"]
    /\ UNCHANGED <<bitmaps, genCache, barrierReg>>
    /\ UNCHANGED <<regVars, caller, chainVars, poolVars, ext, extractions>>
    /\ UNCHANGED <<androidVars, iosVars, auxVars, extraVars>>

\* extractVideoInfo in a later block on Dispatchers.Main:
\* "player.currentPosition * 1000"
StampReadVideoInfo ==
    /\ stampReq.pc = "videoInfo"
    /\ stampReq' = [stampReq EXCEPT !.pc = "extract", !.timeUs = stampReq.position * 1000]
    /\ UNCHANGED <<bitmaps, genCache, barrierReg>>
    /\ UNCHANGED <<regVars, caller, chainVars, poolVars, ext, extractions>>
    /\ UNCHANGED <<androidVars, iosVars, auxVars, extraVars>>

\* extractFrameWithMediaMetadataRetriever(uri, timeUs): a strategy returns the
\* frame at timeUs, or the last fallback the frame at 0, or there is no frame
\* and the placeholder is drawn; then the result map is resolved
StampExtract ==
    /\ stampReq.pc = "extract"
    /\ \E outcome \in {"strategy", "fallback", "none"} :
          stampReq' = [stampReq EXCEPT
                          !.pc = "done", !.code = "resolved",
                          !.frame = IF outcome = "none" THEN "placeholder" ELSE "frame",
                          !.frameUs = IF outcome = "strategy" THEN stampReq.timeUs ELSE 0]
    /\ UNCHANGED <<bitmaps, genCache, barrierReg>>
    /\ UNCHANGED <<regVars, caller, chainVars, poolVars, ext, extractions>>
    /\ UNCHANGED <<androidVars, iosVars, auxVars, extraVars>>

InitStamp == InitAux /\ InitRegistry /\ InitCallers /\ InitChainIdle /\ InitPool /\ InitAndroidIdle

NextStamp ==
    \/ StampPlayerAdvances
    \/ \E includeTimestamp \in BOOLEAN : StampCall(includeTimestamp)
    \/ StampReadTimestamp
    \/ StampReadVideoInfo
    \/ StampExtract

SpecStamp == InitStamp /\ [][NextStamp]_vars

\* C32: the timestamp reported in a result equals the playback position at
\* which the frame of that result was extracted, also when the position of
\* the player advances while the request is in flight.
TimestampIsFramePosition ==
    stampReq.pc = "done" /\ stampReq.stamped /\ stampReq.frame = "frame"
    => FracEq(stampReq.timestamp, Frac(stampReq.frameUs, 1000000))

\* ------------------------------------------- the bitmaps of one capture

\* ScreenshotOutputMode
OutputModes == {"BASE64_ONLY", "SAVE_TO_LIBRARY", "SAVE_TO_PATH"}

\* the bitmaps extractVideoFrame returns: a frame of the video, or the
\* placeholder of the default size
ExtractedBitmaps ==
    {[kind |-> "frame", w |-> VideoWidth, h |-> VideoHeight, scaled |-> FALSE],
     createFallbackPlaceholder(UnknownSize)}

\* a throw inside captureFrameFromPlayer leaves it at once, for the catch
\* block of the request method
FrameThrows(error) ==
    [bitmaps EXCEPT !.pc = "catch", !.error = error]

\* captureFrameFromPlayer has its originalBitmap: bitmap 1 of the request
FrameExtracted(mode, opts, bitmap) ==
    /\ bitmaps.pc = "idle"
    /\ bitmaps' = [bitmaps EXCEPT !.pc = "resize", !.mode = mode, !.opts = opts,
                                  !.original = bitmap, !.created = 1]
    /\ UNCHANGED <<stampReq, genCache, barrierReg>>
    /\ UNCHANGED <<regVars, caller, chainVars, poolVars, ext, extractions>>
    /\ UNCHANGED <<androidVars, iosVars, auxVars, extraVars>>

\* "val processedBitmap = ...": the same bitmap, or bitmap 2 made by
\* Bitmap.createBitmap, which can throw
FrameResize ==
    /\ bitmaps.pc = "resize"
    /\ LET o == bitmaps.opts
           processed == IF o.maxWidth > 0 \/ o.maxHeight > 0
                          THEN resizeBitmapMaintainingAspectRatio(bitmaps.original,
                                                                  o.maxWidth, o.maxHeight)
                          ELSE bitmaps.original
       IN  IF processed = bitmaps.original
             THEN bitmaps' = [bitmaps EXCEPT !.pc = "encode", !.processed = processed]
             ELSE \E thrown \in BOOLEAN :
                    bitmaps' = IF thrown \/ processed.w < 1 \/ processed.h < 1
                                 THEN FrameThrows("IllegalArgumentException")
                                 ELSE [bitmaps EXCEPT !.pc = "encode", !.processed = processed,
                                                      !.created = 2]
    /\ UNCHANGED <<stampReq, genCache, barrierReg>>
    /\ UNCHANGED <<regVars, caller, chainVars, poolVars, ext, extractions>>
    /\ UNCHANGED <<androidVars, iosVars, auxVars, extraVars>>

\* compressBitmapToByteArray and Base64.encodeToString
FrameEncode ==
    /\ bitmaps.pc = "encode"
    /\ \E thrown \in BOOLEAN :
          bitmaps' = IF thrown THEN FrameThrows("IllegalStateException")
                     ELSE [bitmaps EXCEPT !.pc = "output"]
    /\ UNCHANGED <<stampReq, genCache, barrierReg>>
    /\ UNCHANGED <<regVars, caller, chainVars, poolVars, ext, extractions>>
    /\ UNCHANGED <<androidVars, iosVars, auxVars, extraVars>>

\* the "when (outputMode)": saveImageToMediaStore under withTimeout(10000),
\* saveImageDataToFile, or nothing
FrameOutput ==
    /\ bitmaps.pc = "output"
    /\ \E outcome \in {"done", "IOException", "TimeoutCancellationException"} :
          /\ bitmaps.mode = "BASE64_ONLY" => outcome = "done"
          /\ bitmaps.mode = "SAVE_TO_PATH" => outcome # "TimeoutCancellationException"
          /\ bitmaps' = IF outcome = "done" THEN [bitmaps EXCEPT !.pc = "cleanup"]
                        ELSE FrameThrows(outcome)
    /\ UNCHANGED <<stampReq, genCache, barrierReg>>
    /\ UNCHANGED <<regVars, caller, chainVars, poolVars, ext, extractions>>
    /\ UNCHANGED <<androidVars, iosVars, auxVars, extraVars>>

\* "if (processedBitmap != originalBitmap) processedBitmap.recycle()",
\* "originalBitmap.recycle()", and the request method resolves the result
FrameCleanup ==
    /\ bitmaps.pc = "cleanup"
    /\ bitmaps' = [bitmaps EXCEPT
                      !.pc = "done", !.code = "resolved",
                      !.recycled = <<@[1] + 1,
                                     IF bitmaps.processed # bitmaps.original THEN @[2] + 1 ELSE @[2]>>]
    /\ UNCHANGED <<stampReq, genCache, barrierReg>>
    /\ UNCHANGED <<regVars, caller, chainVars, poolVars, ext, extractions>>
    /\ UNCHANGED <<androidVars, iosVars, auxVars, extraVars>>

\* "catch (e: Exception) { promise.reject(...) }" of the request method
FrameCatch ==
    /\ bitmaps.pc = "catch"
    /\ bitmaps' = [bitmaps EXCEPT !.pc = "done",
                                  !.code = IF bitmaps.mode = "BASE64_ONLY"
                                             THEN "CAPTURE_FAILED" ELSE "SAVE_FAILED"]
    /\ UNCHANGED <<stampReq, genCache, barrierReg>>
    /\ UNCHANGED <<regVars, caller, chainVars, poolVars, ext, extractions>>
    /\ UNCHANGED <<androidVars, iosVars, auxVars, extraVars>>

InitFrames == InitAux /\ InitRegistry /\ InitCallers /\ InitChainIdle /\ InitPool /\ InitAndroidIdle

NextFrames ==
    \/ \E mode \in OutputModes, opts \in OptionSets, bitmap \in ExtractedBitmaps :
          FrameExtracted(mode, opts, bitmap)
    \/ FrameResize
    \/ FrameEncode
    \/ FrameOutput
    \/ FrameCleanup
    \/ FrameCatch

SpecFrames == InitFrames /\ [][NextFrames]_vars

\* C33: every frame buffer created for a request (the extracted or
\* placeholder bitmap and any resized copy) has been released exactly once
\* when the request settles, on the success path and on every failure path
\* (resize, encode or save throwing, or the save timing out).
BitmapsRecycledOnce ==
    bitmaps.pc = "done" =>
        \A b \in 1..2 : bitmaps.recycled[b] = IF b <= bitmaps.created THEN 1 ELSE 0

\* ---------------------------------- the pool when the module is destroyed

\* a request reaches extractFrameWithMediaMetadataRetriever before the host
\* destroys the module; the host makes no request afterwards
ExtractCallBeforeDestroy(w) ==
    /\ ~destroyed
    /\ extractions < MaxInFlight
    /\ ExtractCall(w)

InitDestroy == InitAux /\ InitRegistry /\ InitCallers /\ InitChainIdle /\ InitPool /\ InitAndroidIdle

NextDestroy ==
    \/ \E w \in Workers : ExtractCallBeforeDestroy(w)
    \/ \E w \in Workers : Acquire(w)
    \/ \E w \in Workers : ConfigureAndExtract(w)
    \/ \E w \in Workers : ReleaseReadSize(w)
    \/ \E w \in Workers : ReleaseAct(w)
    \/ \E w \in Workers : ExtractReturn(w)
    \/ onCatalystInstanceDestroy

SpecDestroy == InitDestroy /\ [][NextDestroy]_vars

\* C35: once onCatalystInstanceDestroy has run and all requests that were
\* in flight at that moment have completed, the pool holds no idle retriever
\* and every retriever ever constructed has been natively released, in
\* every interleaving of the destroy call with in-flight extractions.
PoolReleasedAfterDestroy ==
    destroyed /\ (\A w \in Workers : ext[w].pc \in {"idle", "returned"})
    => pool = <<>> /\ nativeReleased = 1..constructed

\* ------------------------------------- iOS: the cached image generators

Assets == 1..NumAssets

\* imageGeneratorCache: the requested tolerance of the generator cached for
\* each asset, "none" for an asset without one
EmptyCache == [a \in Assets |-> "none"]

\* the cache as the running capture sees it
GenCacheNow == IF genCache.cache = <<>> THEN EmptyCache ELSE genCache.cache

\* extractVideoFrame(from:) up to its first copyCGImage:
\* getOrCreateImageGenerator returns the cached generator as it is, or makes
\* one with zero tolerance and caches it
GenExtract(asset) ==
    /\ genCache.pc = "idle"
    /\ genCache.captures < MaxCaptures
    /\ LET hit == GenCacheNow[asset] # "none"
           tolerance == IF hit THEN GenCacheNow[asset] ELSE "zero"
       IN  genCache' = [genCache EXCEPT
                           !.pc = "first", !.asset = asset, !.cached = TRUE,
                           !.cache = [GenCacheNow EXCEPT ![asset] = tolerance],
                           !.tolerance = tolerance, !.first = tolerance, !.retry = "none",
                           !.image = FALSE, !.captures = @ + 1]
    /\ UNCHANGED <<stampReq, bitmaps, barrierReg>>
    /\ UNCHANGED <<regVars, caller, chainVars, poolVars, ext, extractions>>
    /\ UNCHANGED <<androidVars, iosVars, auxVars, extraVars>>

\* the first copyCGImage returns, or throws and the catch block sets the
\* tolerances of the generator in hand to 0.1 s
GenFirstAttempt ==
    /\ genCache.pc = "first"
    /\ \E thrown \in BOOLEAN :
          genCache' =
             IF ~thrown THEN [genCache EXCEPT !.pc = "idle", !.image = TRUE]
             ELSE [genCache EXCEPT
                      !.pc = "retry", !.tolerance = "relaxed",
                      !.cache = IF genCache.cached
                                  THEN [GenCacheNow EXCEPT ![genCache.asset] = "relaxed"]
                                  ELSE @]
    /\ UNCHANGED <<stampReq, bitmaps, barrierReg>>
    /\ UNCHANGED <<regVars, caller, chainVars, poolVars, ext, extractions>>
    /\ UNCHANGED <<androidVars, iosVars, auxVars, extraVars>>

\* the second copyCGImage, with the relaxed tolerance
GenRetry ==
    /\ genCache.pc = "retry"
    /\ \E thrown \in BOOLEAN :
          genCache' = [genCache EXCEPT !.pc = "idle", !.retry = genCache.tolerance,
                                       !.image = ~thrown]
    /\ UNCHANGED <<stampReq, bitmaps, barrierReg>>
    /\ UNCHANGED <<regVars, caller, chainVars, poolVars, ext, extractions>>
    /\ UNCHANGED <<androidVars, iosVars, auxVars, extraVars>>

\* NSCache drops an object under its limits, or the memory warning observer
\* calls removeAllObjects
GenEvict(dropped) ==
    /\ \E a \in dropped : GenCacheNow[a] # "none"
    /\ genCache' = [genCache EXCEPT
                       !.cache = [a \in Assets |-> IF a \in dropped THEN "none" ELSE GenCacheNow[a]],
                       !.cached = @ /\ genCache.asset \notin dropped]
    /\ UNCHANGED <<stampReq, bitmaps, barrierReg>>
    /\ UNCHANGED <<regVars, caller, chainVars, poolVars, ext, extractions>>
    /\ UNCHANGED <<androidVars, iosVars, auxVars, extraVars>>

InitGen == InitAux /\ InitRegistry /\ InitCallers /\ InitChainIdle /\ InitPool /\ InitAndroidIdle

NextGen ==
    \/ \E asset \in Assets : GenExtract(asset)
    \/ GenFirstAttempt
    \/ GenRetry
    \/ \E dropped \in SUBSET Assets : GenEvict(dropped)

SpecGen == InitGen /\ [][NextGen]_vars

\* C38: with cached image generators every capture's first extraction
\* attempt uses zero time tolerance; the relaxed 0.1 s tolerance is used
\* only for the retry inside the capture whose strict attempt failed, never
\* for the first attempt of a later capture on the same asset.
FirstAttemptIsStrict ==
    /\ genCache.first \in {"none", "zero"}
    /\ genCache.retry \in {"none", "relaxed"}

\* --------------------------- iOS: the dictionary behind the player queue

\* a concurrent queue without barriers: the head starts whatever is running
StartableAlways(queue, running) ==
    queue # <<>>

\* playerQueue, a concurrent queue: blocks start in the order submitted; a
\* barrier block starts when nothing is running, and nothing starts while a
\* barrier block is running
Startable(queue, running) ==
    /\ queue # <<>>
    /\ \A b \in running : ~b.barrier
    /\ Head(queue).barrier => running = {}

\* onInstanceCreated / onInstanceRemoved: playerQueue.async(flags: .barrier)
\* submits the write and the handler returns; history: the last call that
\* returned, per id
BarrierLifecycle(op, id, h) ==
    /\ barrierReg.writes < MaxWrites
    /\ barrierReg' = [barrierReg EXCEPT
                         !.queue = Append(@, [barrier |-> TRUE, op |-> op, id |-> id, player |-> h]),
                         !.writes = @ + 1,
                         !.returned[id] = [op |-> op, player |-> h]]
    /\ UNCHANGED <<stampReq, bitmaps, genCache>>
    /\ UNCHANGED <<regVars, caller, chainVars, poolVars, ext, extractions>>
    /\ UNCHANGED <<androidVars, iosVars, auxVars, extraVars>>

\* a request method: "self.playerQueue.sync { self.players[videoId] }"
\* submits the read and waits for it; history: what the last returned call
\* for the id registered, and the writes not yet done when the read is submitted
BarrierLookup(id) ==
    /\ barrierReg.lookup.pc = "idle"
    /\ barrierReg' = [barrierReg EXCEPT
                         !.queue = Append(@, [barrier |-> FALSE, op |-> "read", id |-> id,
                                              player |-> NoPlayer]),
                         !.lookup = [pc |-> "waiting", id |-> id,
                                     expected |-> ExpectedAfter(barrierReg.returned[id]),
                                     behind |-> Len(barrierReg.queue)
                                                  + Cardinality(barrierReg.running),
                                     result |-> NoPlayer]]
    /\ UNCHANGED <<stampReq, bitmaps, genCache>>
    /\ UNCHANGED <<regVars, caller, chainVars, poolVars, ext, extractions>>
    /\ UNCHANGED <<androidVars, iosVars, auxVars, extraVars>>

\* the queue starts its head block on a thread
BlockStarts ==
    /\ Startable(barrierReg.queue, barrierReg.running)
    /\ barrierReg' = [barrierReg EXCEPT !.queue = Tail(@),
                                        !.running = @ \cup {Head(barrierReg.queue)}]
    /\ UNCHANGED <<stampReq, bitmaps, genCache>>
    /\ UNCHANGED <<regVars, caller, chainVars, poolVars, ext, extractions>>
    /\ UNCHANGED <<androidVars, iosVars, auxVars, extraVars>>

\* a running block does its access to the dictionary and ends; the sync of a
\* read returns its value
BlockEnds(b) ==
    /\ b \in barrierReg.running
    /\ barrierReg' =
          CASE b.op = "created" ->
                 [barrierReg EXCEPT !.running = @ \ {b}, !.dict[b.id] = b.player]
            [] b.op = "removed" ->
                 [barrierReg EXCEPT !.running = @ \ {b}, !.dict[b.id] = NoPlayer]
            [] OTHER ->
                 [barrierReg EXCEPT !.running = @ \ {b},
                                    !.lookup.pc = "done",
                                    !.lookup.result = barrierReg.dict[b.id]]
    /\ UNCHANGED <<stampReq, bitmaps, genCache>>
    /\ UNCHANGED <<regVars, caller, chainVars, poolVars, ext, extractions>>
    /\ UNCHANGED <<androidVars, iosVars, auxVars, extraVars>>

\* the request goes on with the player it got and the next request begins
BarrierNextRequest ==
    /\ barrierReg.lookup.pc = "done"
    /\ barrierReg' = [barrierReg EXCEPT !.lookup.pc = "idle"]
    /\ UNCHANGED <<stampReq, bitmaps, genCache>>
    /\ UNCHANGED <<regVars, caller, chainVars, poolVars, ext, extractions>>
    /\ UNCHANGED <<androidVars, iosVars, auxVars, extraVars>>

InitBarrier == InitAux /\ InitRegistry /\ InitCallers /\ InitChainIdle /\ InitPool /\ InitAndroidIdle

NextBarrier ==
    \/ \E id \in Ids, h \in Handles : BarrierLifecycle("created", id, h)
    \/ \E id \in Ids, h \in Handles : BarrierLifecycle("removed", id, h)
    \/ \E id \in Ids : BarrierLookup(id)
    \/ BlockStarts
    \/ \E b \in barrierReg.running : BlockEnds(b)
    \/ BarrierNextRequest

SpecBarrier == InitBarrier /\ [][NextBarrier]_vars

\* C39: in the registry that writes through an asynchronous barrier on the
\* player queue, a lookup issued after onInstanceCreated(id, h) has returned
\* observes h, and a lookup issued after onInstanceRemoved(id) has returned
\* observes none, although the write itself runs asynchronously.
LookupSeesReturnedWrite ==
    barrierReg.lookup.pc = "done" => barrierReg.lookup.result = barrierReg.lookup.expected

\* a lookup submitted while the writes of a removal and of a registration of
\* its id had not run yet returned the handle of that registration
LookupBehindBarrierWitness ==
    /\ barrierReg.lookup.pc = "done"
    /\ barrierReg.lookup.behind >= 2
    /\ barrierReg.lookup.expected # NoPlayer
    /\ barrierReg.lookup.result = barrierReg.lookup.expected

====
